---- MODULE Spec2Model ----
(***************************************************************************)
(* Aggregation engine of the irrigation-performance backend                *)
(* (python_backend/*.py): the Adequacy, Equity, Productivity, Cropping     *)
(* Intensity and Irrigation Utilization modules and the POST handlers of   *)
(* server.py that run them on an uploaded file.                            *)
(*                                                                         *)
(* Numbers.  A CSV number is an exact rational <<n, d>> with d > 0.  A     *)
(* value the code rounds to k decimals is kept as the integer value*10^k   *)
(* (an adequacy 0.25 is 25, an equity 0.5 is 500).  All rounding in the    *)
(* code (Python round, numpy/pandas round) is round-half-to-even.          *)
(* "no value" (None / NaN) is the empty tuple <<>>, a value v is <<v>>.    *)
(***************************************************************************)
EXTENDS Integers, Sequences, FiniteSets, TLC

VARIABLES module, args, columns, df, pc, i, season_results, summary, average, returned,
          error, requests, files, outputs

vars == <<module, args, columns, df, pc, i, season_results, summary, average, returned,
          error, requests, files, outputs>>

-----------------------------------------------------------------------------
(* Bounds of the model *)

MaxRows == 3
MaxYear == 2
NumRequests == 2
MaxCalls == 2

-----------------------------------------------------------------------------
(* Exact arithmetic *)

None == <<>>
Some(v) == <<v>>
HasValue(o) == o # <<>>
Val(o) == o[1]

Abs(n) == IF n < 0 THEN -n ELSE n

RECURSIVE Gcd(_, _)
Gcd(a, b) == IF b = 0 THEN a ELSE Gcd(b, a % b)

\* the rational n/d in lowest terms with a positive denominator (d # 0)
Q(n, d) ==
    LET g == Gcd(Abs(n), Abs(d))
        s == IF d < 0 THEN -1 ELSE 1
    IN  <<(s * n) \div g, (s * d) \div g>>

RAdd(a, b) == Q(a[1] * b[2] + b[1] * a[2], a[2] * b[2])
RSub(a, b) == Q(a[1] * b[2] - b[1] * a[2], a[2] * b[2])
RMul(a, b) == Q(a[1] * b[1], a[2] * b[2])
RDiv(a, b) == Q(a[1] * b[2], a[2] * b[1])
RLess(a, b) == a[1] * b[2] < b[1] * a[2]
RLeq(a, b) == a[1] * b[2] <= b[1] * a[2]
RInt(n) == <<n, 1>>
RZero == <<0, 1>>

\* n/d (d > 0) rounded to the nearest integer, ties to the even one
RoundHalfEven(n, d) ==
    LET q == n \div d
        r == n % d
    IN  IF 2 * r < d THEN q
        ELSE IF 2 * r > d THEN q + 1
        ELSE IF q % 2 = 0 THEN q ELSE q + 1

Pow10(k) == IF k = 0 THEN 1 ELSE IF k = 1 THEN 10 ELSE IF k = 2 THEN 100
            ELSE IF k = 3 THEN 1000 ELSE 10000

\* round(x, k) as the integer x * 10^k
Round(x, k) == RoundHalfEven(x[1] * Pow10(k), x[2])

\* a value kept at k decimals, back as a rational
Dec(v, k) == Q(v, Pow10(k))

RECURSIVE RSum(_)
RSum(s) == IF s = <<>> THEN RZero ELSE RAdd(Head(s), RSum(Tail(s)))

\* mean of a non-empty sequence of rationals
RMean(s) == RDiv(RSum(s), RInt(Len(s)))

\* the elements of a finite set of integers, ascending
RECURSIVE Sorted(_)
Sorted(S) ==
    IF S = {} THEN <<>>
    ELSE LET m == CHOOSE x \in S : \A y \in S : x <= y
         IN  <<m>> \o Sorted(S \ {m})

Range(s) == {s[k] : k \in 1..Len(s)}

\* a sequence, resp. a function, given by a rule, as the explicit tuple, resp.
\* explicit function, of its values
Tuple(s) == SubSeq(s, 1, Len(s))
Fn(f) == f @@ <<>>

\* distinct elements in first-seen order (pandas Series.unique)
RECURSIVE Unique(_)
Unique(s) ==
    IF s = <<>> THEN <<>>
    ELSE LET front == Unique(SubSeq(s, 1, Len(s) - 1))
             last == s[Len(s)]
         IN  IF last \in Range(front) THEN front ELSE Append(front, last)

-----------------------------------------------------------------------------
(* Records: one row of the uploaded CSV, as pandas.read_csv returns it.    *)
(* Fields: year, Season, CropType ("Crop Type"), CropID, Area, status,     *)
(* ETa, ETa90, TBP; Area, ETa, ETa90 and TBP are rationals.                *)

Column(s, f) == Tuple([k \in 1..Len(s) |-> s[k][f]])

\* An uploaded CSV as pandas.read_csv returns it: [columns, rows].  A function
\* of the modules either raises e or returns v.
Raise(e) == [error |-> Some(e), value |-> None]
Return(v) == [error |-> None, value |-> Some(v)]

\* for col in required_cols: if col not in df.columns: the first such col
MissingColumn(required_cols, cols) ==
    LET missing == SelectSeq(required_cols, LAMBDA c : c \notin cols)
    IN  IF missing = <<>> THEN None ELSE Some(missing[1])

\* ValueError(f"Missing required column: {col}")
ValueError(col) == [type |-> "ValueError", column |-> col]

-----------------------------------------------------------------------------
(* adequacy_calculation.py *)

ADQ_SEASONS == <<0, 1, 2, 3>>
\* SEASON_LABELS, in the order its items() are iterated
SEASON_LABELS == <<1, 2, 3, 0>>
EXCLUDE_CROPS == {"Other Unirrigated"}

AdqSeasonRows(d, season) ==
    SelectSeq(d, LAMBDA r : r.Season = season /\ r.CropType \notin EXCLUDE_CROPS)

AdqIrrigated(df_season) == SelectSeq(df_season, LAMBDA r : r.status = "IRRIGATED")

\* the rows of one (year, crop) cell
AdqSubset(df_season, year, crop) ==
    SelectSeq(df_season,
              LAMBDA r : r.year = year /\ r.CropType = crop /\ r.status = "IRRIGATED")

\* area_df: groupby(['year', 'Crop Type'])['Area'].sum().unstack(fill_value=0),
\* restricted to crop_types, then .round(0).astype(int)
AreaDf(df_season) ==
    LET irr == AdqIrrigated(df_season)
        years == Range(Column(irr, "year"))
        cols == Range(Column(irr, "CropType"))
    IN  Fn([y \in years |->
            Fn([c \in cols |->
                   Round(RSum(Column(AdqSubset(df_season, y, c), "Area")), 0)])])

\* compute_adequacy without its "blank when no area" test
compute_adequacy_NoAreaGuard(df_season, area_df, year, crop) ==
    LET subset == AdqSubset(df_season, year, crop)
    IN  IF subset = <<>> THEN None
        ELSE LET avg_eta == RMean(Column(subset, "ETa"))
                 avg_eta90 == RMean(Column(subset, "ETa90"))
             IN  IF avg_eta90[1] = 0 THEN None
                 ELSE Some(Round(RSub(RInt(1), RDiv(avg_eta, avg_eta90)), 2))

\* compute_adequacy with its result clamped to [0, 1]
compute_adequacy_Clamped(df_season, area_df, year, crop) ==
    LET v == compute_adequacy_NoAreaGuard(df_season, area_df, year, crop)
    IN  IF area_df[year][crop] <= 0 \/ v = None THEN None
        ELSE IF Val(v) < 0 THEN Some(0)
        ELSE IF Val(v) > 100 THEN Some(100)
        ELSE v

compute_adequacy(df_season, area_df, year, crop) ==
    IF area_df[year][crop] <= 0 THEN None
    ELSE LET subset == AdqSubset(df_season, year, crop)
         IN  IF subset = <<>> THEN None
             ELSE LET avg_eta == RMean(Column(subset, "ETa"))
                      avg_eta90 == RMean(Column(subset, "ETa90"))
                  IN  IF avg_eta90[1] = 0 THEN None
                      ELSE Some(Round(RSub(RInt(1), RDiv(avg_eta, avg_eta90)), 2))

AdequacyDf(df_season, area_df) ==
    Fn([y \in DOMAIN area_df |->
           Fn([c \in DOMAIN area_df[y] |-> compute_adequacy(df_season, area_df, y, c)])])

\* the columns of a matrix row, in crop_types order
ColSeq(crop_types, row) == SelectSeq(crop_types, LAMBDA c : c \in DOMAIN row)

\* combined[yr] as the SUMPRODUCT alone, not divided by the sum of the weights
CombinedAdequacy_NoDivision(crop_types, area_row, adequacy_row) ==
    LET valid == SelectSeq(SelectSeq(crop_types, LAMBDA c : c \in DOMAIN adequacy_row),
                           LAMBDA c : HasValue(adequacy_row[c]))
        prods == [k \in 1..Len(valid) |->
                     RMul(Dec(Val(adequacy_row[valid[k]]), 2), RInt(area_row[valid[k]]))]
    IN  IF valid = <<>> THEN None ELSE Some(Round(RSum(prods), 2))

\* combined[yr]: SUMPRODUCT(row_adequacy * row_area) / SUM(area) over the valid cells.
\* The division is numpy's: a float64 0.0 over an int64 0 is nan, the missing
\* value (valued cells have area > 0, so the code never gets there).
CombinedAdequacy(crop_types, area_row, adequacy_row) ==
    LET valid == SelectSeq(ColSeq(crop_types, adequacy_row),
                           LAMBDA c : HasValue(adequacy_row[c]))
        prods == [k \in 1..Len(valid) |->
                     RMul(Dec(Val(adequacy_row[valid[k]]), 2), RInt(area_row[valid[k]]))]
        weights == [k \in 1..Len(valid) |-> RInt(area_row[valid[k]])]
    IN  IF valid = <<>> THEN None
        ELSE IF RSum(weights) = RZero THEN None
        ELSE Some(Round(RDiv(RSum(prods), RSum(weights)), 2))

\* process_season_data without its "if df_season.empty: return None"
process_season_data_NoEmptyCheck(d, season) ==
    LET df_season == AdqSeasonRows(d, season)
        crop_types == Unique(Column(df_season, "CropType"))
        area_df == AreaDf(df_season)
        adequacy_df == AdequacyDf(df_season, area_df)
        combined == Fn([y \in DOMAIN area_df |->
                           CombinedAdequacy(crop_types, area_df[y], adequacy_df[y])])
    IN  Some([area_matrix |-> area_df,
              adequacy_matrix |-> adequacy_df,
              combined_adequacy |-> combined,
              crop_types |-> crop_types,
              years |-> Sorted(DOMAIN area_df)])

process_season_data(d, season) ==
    LET df_season == AdqSeasonRows(d, season)
        crop_types == Unique(Column(df_season, "CropType"))
        area_df == AreaDf(df_season)
        adequacy_df == AdequacyDf(df_season, area_df)
        combined == Fn([y \in DOMAIN area_df |->
                           CombinedAdequacy(crop_types, area_df[y], adequacy_df[y])])
    IN  IF df_season = <<>> THEN None
        ELSE Some([area_matrix |-> area_df,
                   adequacy_matrix |-> adequacy_df,
                   combined_adequacy |-> combined,
                   crop_types |-> crop_types,
                   years |-> Sorted(DOMAIN area_df)])

\* summary_df[label] = series: the first non-empty series gives the frame its
\* index; every series is aligned to the index the frame has
AssignColumn(sdf, s, series) ==
    LET idx == IF sdf.index = {} /\ DOMAIN series # {} THEN DOMAIN series ELSE sdf.index
        Reindex(col) == Fn([y \in idx |-> IF y \in DOMAIN col THEN col[y] ELSE None])
    IN  [index |-> idx,
         cols |-> Fn([c \in DOMAIN sdf.cols \cup {s} |->
                         IF c = s THEN Reindex(series) ELSE Reindex(sdf.cols[c])])]

RECURSIVE SummaryDf(_, _)
SummaryDf(results, k) ==
    IF k = 0 THEN [index |-> {}, cols |-> <<>>]
    ELSE LET s == SEASON_LABELS[k]
             prev == SummaryDf(results, k - 1)
         IN  IF s \in DOMAIN results
             THEN AssignColumn(prev, s, results[s].combined_adequacy)
             ELSE prev

\* the non-"no value" entries of a sequence of cells
Valid(cells) == SelectSeq(cells, LAMBDA v : HasValue(v))

Values(cells) == LET v == Valid(cells) IN Tuple([k \in 1..Len(v) |-> Val(v[k])])

Ints(s) == Tuple([k \in 1..Len(s) |-> RInt(s[k])])

\* summary_df.mean().round(2) for one column, 0 when the column is absent or NaN
AdqAverage(sdf, s) ==
    IF s \notin DOMAIN sdf.cols THEN Some(0)
    ELSE LET years == Sorted(sdf.index)
             vals == Values([k \in 1..Len(years) |-> sdf.cols[s][years[k]]])
             total == RSum(Ints(vals))
         IN  IF vals = <<>> THEN Some(0)
             ELSE Some(RoundHalfEven(total[1], total[2] * Len(vals)))

AdqSummaryRow(sdf, year) ==
    LET Cell(s) == IF s \in DOMAIN sdf.cols THEN sdf.cols[s][year] ELSE None
    IN  [year |-> year, kharif |-> Cell(1), rabi |-> Cell(2), zaid |-> Cell(3),
         annual |-> Cell(0)]

AdqSummary(sdf) ==
    [k \in 1..Len(Sorted(sdf.index)) |-> AdqSummaryRow(sdf, Sorted(sdf.index)[k])]

AdqAverageBlock(sdf) ==
    [kharif |-> AdqAverage(sdf, 1), rabi |-> AdqAverage(sdf, 2),
     zaid |-> AdqAverage(sdf, 3), annual |-> AdqAverage(sdf, 0)]

AdqRequiredCols == <<"year", "Season", "Crop Type", "Area", "ETa", "ETa90", "status">>

\* read_csv and the required-columns check of compute_adequacy_from_csv
AdqReadCsv ==
    /\ module = "adequacy"
    /\ pc = "read"
    /\ LET col == MissingColumn(AdqRequiredCols, columns)
       IN  IF HasValue(col)
           THEN pc' = "raised" /\ error' = Some(ValueError(Val(col)))
           ELSE pc' = "seasons" /\ error' = error
    /\ UNCHANGED <<module, args, columns, df, i, season_results, summary, average,
                   returned, requests, files, outputs>>

\* one iteration of "for season in SEASONS" of compute_adequacy_from_csv
AdqProcessSeason ==
    /\ module = "adequacy"
    /\ pc = "seasons"
    /\ LET season == ADQ_SEASONS[i]
           result == process_season_data(df, season)
       IN  season_results' = IF HasValue(result)
                             THEN (season :> Val(result)) @@ season_results
                             ELSE season_results
    /\ i' = IF i < Len(ADQ_SEASONS) THEN i + 1 ELSE 1
    /\ pc' = IF i < Len(ADQ_SEASONS) THEN "seasons" ELSE "summary"
    /\ UNCHANGED <<module, args, columns, df, summary, average, returned, error, requests,
                   files, outputs>>

\* the summary table and the average block of compute_adequacy_from_csv
AdqSummarize ==
    /\ module = "adequacy"
    /\ pc = "summary"
    /\ LET sdf == SummaryDf(season_results, Len(SEASON_LABELS))
       IN  /\ summary' = AdqSummary(sdf)
           /\ average' = AdqAverageBlock(sdf)
    /\ pc' = "done"
    /\ UNCHANGED <<module, args, columns, df, i, season_results, returned, error, requests,
                   files, outputs>>

\* season_results: the seasons whose result is not None
AdqSeasonResults(d) ==
    LET present == {s \in Range(ADQ_SEASONS) : HasValue(process_season_data(d, s))}
    IN  Fn([s \in present |-> Val(process_season_data(d, s))])

\* the whole function, from the file to what it returns or raises
compute_adequacy_from_csv(file) ==
    LET col == MissingColumn(AdqRequiredCols, file.columns)
        results == AdqSeasonResults(file.rows)
        sdf == SummaryDf(results, Len(SEASON_LABELS))
    IN  IF HasValue(col) THEN Raise(ValueError(Val(col)))
        ELSE Return([summary |-> AdqSummary(sdf),
                     average |-> AdqAverageBlock(sdf),
                     season_results |-> results])

-----------------------------------------------------------------------------
(* productivity_calculation.py                                             *)
(* A table of generate_season_tables is a dict keyed by the years and by   *)
(* 'Average', each entry keyed by the crops and by 'Average'.  Here it is  *)
(* [cells, row_avg, col_avg, avg_avg]: cells[y][c] is table[y][c],         *)
(* row_avg[y] is table[y]['Average'], col_avg[c] is table['Average'][c]    *)
(* and avg_avg is table['Average']['Average'].                             *)

PROD_SEASONS == <<1, 2, 3, 4>>

\* the 'productivity' column parse_productivity_csv adds: TBP / (ETa * 10), or 0
RowProductivity(r) ==
    IF RLess(RZero, r.ETa) THEN RDiv(r.TBP, RMul(r.ETa, RInt(10))) ELSE RZero

ProdBase(d, season_code) ==
    SelectSeq(d, LAMBDA r : r.Season = season_code /\ r.status = "IRRIGATED")

FilteredAvg(base) == SelectSeq(base, LAMBDA r : RLess(RZero, r.Area))

ProdCellRows(rows, year, crop) ==
    SelectSeq(rows, LAMBDA r : r.year = year /\ r.CropType = crop)

\* sorted(base['Crop Type'].unique()) over the crop names of the record sets
CropOrder == <<"Other Unirrigated", "Rice", "Wheat">>
SortedCrops(S) == SelectSeq(CropOrder, LAMBDA c : c \in S)

\* round(sum(values) / len(values), k) of the values kept at k decimals
MeanOfRounded(vals, k) ==
    LET total == RSum(Ints(vals)) IN RoundHalfEven(total[1], total[2] * Len(vals))

\* the mean of the non-None cells, rounded, or `dflt` when there is none
AvgCells(cells, k, dflt) ==
    LET vals == Values(cells)
    IN  IF vals = <<>> THEN dflt ELSE Some(MeanOfRounded(vals, k))

AreaCell(base, year, crop) ==
    Round(RSum(Column(ProdCellRows(base, year, crop), "Area")), 0)

AreaTable(base, years, crops) ==
    LET cells == Fn([y \in Range(years) |->
                        Fn([c \in Range(crops) |-> AreaCell(base, y, c)])])
        row_avg == Fn([y \in Range(years) |->
                          MeanOfRounded([k \in 1..Len(crops) |-> cells[y][crops[k]]], 0)])
    IN  [cells |-> cells,
         row_avg |-> row_avg,
         col_avg |-> [c \in Range(crops) |->
                         MeanOfRounded([k \in 1..Len(years) |-> cells[years[k]][c]], 0)],
         avg_avg |-> MeanOfRounded([k \in 1..Len(years) |-> row_avg[years[k]]], 0)]

\* the cell without its test of the Area cell
MeanCell_NoAreaGuard(base, f, year, crop) ==
    LET crop_records == ProdCellRows(FilteredAvg(base), year, crop)
    IN  IF Len(crop_records) > 0
        THEN Some(Round(RMean(Column(crop_records, f)), 0))
        ELSE None

\* eta[year][crop] and tbp[year][crop]: the rounded mean of column f over the
\* rows with Area > 0, None when there is no such row or the Area cell is 0
MeanCell(base, f, year, crop) ==
    LET crop_records == ProdCellRows(FilteredAvg(base), year, crop)
    IN  IF Len(crop_records) > 0 /\ AreaCell(base, year, crop) > 0
        THEN Some(Round(RMean(Column(crop_records, f)), 0))
        ELSE None

MeanTable(base, f, years, crops) ==
    LET cells == Fn([y \in Range(years) |->
                        Fn([c \in Range(crops) |-> MeanCell(base, f, y, c)])])
        row_avg == Fn([y \in Range(years) |->
                          AvgCells([k \in 1..Len(crops) |-> cells[y][crops[k]]], 0, None)])
    IN  [cells |-> cells,
         row_avg |-> row_avg,
         col_avg |-> [c \in Range(crops) |->
                         AvgCells([k \in 1..Len(years) |-> cells[years[k]][c]], 0, None)],
         avg_avg |-> AvgCells([k \in 1..Len(years) |-> row_avg[years[k]]], 0, None)]

ProductivityCell(base, year, crop) ==
    LET crop_records == ProdCellRows(FilteredAvg(base), year, crop)
    IN  IF Len(crop_records) > 0
        THEN Some(Round(RMean([k \in 1..Len(crop_records) |->
                                  RowProductivity(crop_records[k])]), 2))
        ELSE None

\* the plain mean of the row productivities instead of the area-weighted one
WeightedProductivity_Unweighted(base, year) ==
    LET year_records == SelectSeq(FilteredAvg(base), LAMBDA r : r.year = year)
    IN  IF year_records # <<>>
        THEN Some(Round(RMean([k \in 1..Len(year_records) |->
                                  RowProductivity(year_records[k])]), 2))
        ELSE None

\* weighted_productivity[year]: sum(Area * productivity) / sum(Area) over the
\* rows of the year with Area > 0
WeightedProductivity(base, year) ==
    LET year_records == SelectSeq(FilteredAvg(base), LAMBDA r : r.year = year)
        total_area == RSum(Column(year_records, "Area"))
        weighted_sum == RSum([k \in 1..Len(year_records) |->
                                 RMul(year_records[k].Area,
                                      RowProductivity(year_records[k]))])
    IN  IF RLess(RZero, total_area)
        THEN Some(Round(RDiv(weighted_sum, total_area), 2))
        ELSE None

\* the grand average weighted by area again: one weighted mean over all years
AverageWeighted_ByArea(base, years) ==
    LET rows == FilteredAvg(base)
        total_area == RSum(Column(rows, "Area"))
        weighted_sum == RSum([k \in 1..Len(rows) |->
                                 RMul(rows[k].Area, RowProductivity(rows[k]))])
    IN  IF RLess(RZero, total_area)
        THEN Some(Round(RDiv(weighted_sum, total_area), 2))
        ELSE None

\* average_weighted_productivity: the mean of the non-None weighted values
AverageWeighted(base, years) ==
    AvgCells([k \in 1..Len(years) |-> WeightedProductivity(base, years[k])], 2, None)

generate_season_tables(d, season_code) ==
    LET base == ProdBase(d, season_code)
        years == Sorted(Range(Column(base, "year")))
        crops == SortedCrops(Range(Column(base, "CropType")))
        weighted == Fn([y \in Range(years) |-> WeightedProductivity(base, y)])
        cells == Fn([y \in Range(years) |->
                        Fn([c \in Range(crops) |-> ProductivityCell(base, y, c)])])
        average_weighted_productivity == AverageWeighted(base, years)
    IN  IF base = <<>> THEN None
        ELSE Some([area |-> AreaTable(base, years, crops),
                   eta |-> MeanTable(base, "ETa", years, crops),
                   tbp |-> MeanTable(base, "TBP", years, crops),
                   productivity |->
                       [cells |-> cells,
                        row_avg |-> weighted,
                        col_avg |-> [c \in Range(crops) |->
                                        AvgCells([k \in 1..Len(years) |-> cells[years[k]][c]],
                                                 2, None)],
                        avg_avg |-> average_weighted_productivity],
                   weighted_productivity |-> weighted,
                   years |-> years,
                   crops |-> crops,
                   average_weighted_productivity |-> average_weighted_productivity])

ProdRequiredCols == <<"year", "Season", "Crop Type", "Area", "ETa", "TBP", "status">>

\* parse_productivity_csv: read_csv, the required-columns check, the
\* 'productivity' column (RowProductivity)
ProdParseCsv ==
    /\ module = "productivity"
    /\ pc = "read"
    /\ LET col == MissingColumn(ProdRequiredCols, columns)
       IN  IF HasValue(col)
           THEN pc' = "raised" /\ error' = Some(ValueError(Val(col)))
           ELSE pc' = "seasons" /\ error' = error
    /\ UNCHANGED <<module, args, columns, df, i, season_results, summary, average,
                   returned, requests, files, outputs>>

\* kharif = generate_season_tables(df, 1), ..., annual = generate_season_tables(df, 4)
ProdGenerateSeason ==
    /\ module = "productivity"
    /\ pc = "seasons"
    /\ LET season_code == PROD_SEASONS[i]
           result == generate_season_tables(df, season_code)
       IN  season_results' = IF HasValue(result)
                             THEN (season_code :> Val(result)) @@ season_results
                             ELSE season_results
    /\ i' = IF i < Len(PROD_SEASONS) THEN i + 1 ELSE 1
    /\ pc' = IF i < Len(PROD_SEASONS) THEN "seasons" ELSE "summary"
    /\ UNCHANGED <<module, args, columns, df, summary, average, returned, error, requests,
                   files, outputs>>

\* season_data['weighted_productivity'].get(str(year)) if season_data else None
ProdSummaryCell(results, season_code, year) ==
    IF season_code \in DOMAIN results
       /\ year \in DOMAIN results[season_code].weighted_productivity
    THEN results[season_code].weighted_productivity[year]
    ELSE None

ProdSummary(results) ==
    LET all_years == UNION {Range(results[s].years) : s \in DOMAIN results}
        sorted_years == Sorted(all_years)
    IN  [k \in 1..Len(sorted_years) |->
            [year |-> sorted_years[k],
             kharif |-> ProdSummaryCell(results, 1, sorted_years[k]),
             rabi |-> ProdSummaryCell(results, 2, sorted_years[k]),
             zaid |-> ProdSummaryCell(results, 3, sorted_years[k]),
             annual |-> ProdSummaryCell(results, 4, sorted_years[k])]]

\* season['average_weighted_productivity'] if season else 0
ProdAverage(results, season_code) ==
    IF season_code \in DOMAIN results
    THEN results[season_code].average_weighted_productivity
    ELSE Some(0)

ProdAverageBlock(results) ==
    [kharif |-> ProdAverage(results, 1), rabi |-> ProdAverage(results, 2),
     zaid |-> ProdAverage(results, 3), annual |-> ProdAverage(results, 4)]

\* the summary and the average block of compute_productivity_from_csv
ProdSummarize ==
    /\ module = "productivity"
    /\ pc = "summary"
    /\ summary' = ProdSummary(season_results)
    /\ average' = ProdAverageBlock(season_results)
    /\ pc' = "done"
    /\ UNCHANGED <<module, args, columns, df, i, season_results, returned, error, requests,
                   files, outputs>>

\* kharif, rabi, zaid, annual: the seasons whose tables are not None
ProdSeasonResults(d) ==
    LET present == {s \in Range(PROD_SEASONS) : HasValue(generate_season_tables(d, s))}
    IN  Fn([s \in present |-> Val(generate_season_tables(d, s))])

\* the whole function, from the file to what it returns or raises
compute_productivity_from_csv(file) ==
    LET col == MissingColumn(ProdRequiredCols, file.columns)
        results == ProdSeasonResults(file.rows)
    IN  IF HasValue(col) THEN Raise(ValueError(Val(col)))
        ELSE Return([summary |-> ProdSummary(results),
                     average |-> ProdAverageBlock(results),
                     season_tables |-> results])

-----------------------------------------------------------------------------
(* equity.py *)

\* str.upper() on the status strings of the record sets
Upper(st) == IF st = "Irrigated" \/ st = "irrigated" THEN "IRRIGATED" ELSE st

\* the largest r in lo..hi with r * r <= x
RECURSIVE ISqrt(_, _, _)
ISqrt(x, lo, hi) ==
    IF lo >= hi THEN lo
    ELSE LET mid == (lo + hi + 1) \div 2
         IN  IF mid * mid <= x THEN ISqrt(x, mid, hi) ELSE ISqrt(x, lo, mid - 1)

\* round(sqrt(q), 3) as the integer sqrt(q) * 1000, for a rational q >= 0
RoundSqrt3(q) ==
    LET x4 == 4000000 * q[1]
        r == ISqrt(x4 \div q[2], 0, 46340)
        tie == r * r * q[2] = x4 /\ r % 2 = 1
    IN  IF tie THEN (IF ((r - 1) \div 2) % 2 = 0 THEN (r - 1) \div 2 ELSE (r + 1) \div 2)
        ELSE (r + 1) \div 2

\* Series.var(): the sample variance (ddof = 1) of at least two values
SampleVar(vals) ==
    LET mean == RMean(vals)
        sq == Tuple([k \in 1..Len(vals) |->
                        RMul(RSub(vals[k], mean), RSub(vals[k], mean))])
    IN  RDiv(RSum(sq), RInt(Len(vals) - 1))

\* the crop-id restriction applied to the Annual season as well
EqSubset_AnnualRestricted(d, has_crop_id, crop_id, year, season) ==
    SelectSeq(d, LAMBDA r :
        /\ has_crop_id /\ HasValue(crop_id) => r.CropID = Val(crop_id)
        /\ r.year = year
        /\ Upper(r.status) = "IRRIGATED"
        /\ r.Season = season)

\* the rows one (year, season) cell is computed over
EqSubset(d, has_crop_id, crop_id, year, season) ==
    SelectSeq(d, LAMBDA r :
        /\ season # 0 /\ has_crop_id /\ HasValue(crop_id) => r.CropID = Val(crop_id)
        /\ r.year = year
        /\ Upper(r.status) = "IRRIGATED"
        /\ r.Season = season)

\* the cell with "mean_eta != 0" for its test "mean_eta > 0"
EquityCell_MeanNonZero(subset) ==
    IF subset # <<>> /\ Len(subset) > 1
    THEN LET mean_eta == RMean(Column(subset, "ETa"))
         IN  IF mean_eta # RZero
             THEN Some(RoundSqrt3(RDiv(SampleVar(Column(subset, "ETa")),
                                       RMul(mean_eta, mean_eta))))
             ELSE None
    ELSE None

\* round(std_eta / mean_eta, 3) if mean_eta > 0, None for fewer than two rows
EquityCell(subset) ==
    IF subset # <<>> /\ Len(subset) > 1
    THEN LET mean_eta == RMean(Column(subset, "ETa"))
         IN  IF RLess(RZero, mean_eta)
             THEN Some(RoundSqrt3(RDiv(SampleVar(Column(subset, "ETa")),
                                       RMul(mean_eta, mean_eta))))
             ELSE None
    ELSE None

\* crop_id as given, or the first CropID of the data when it has the column
EqCropId(d, has_crop_id, crop_id) ==
    IF crop_id = None /\ has_crop_id
    THEN (IF d = <<>> THEN None ELSE Some(d[1].CropID))
    ELSE crop_id

\* the years in the order of their rows, without sorted(...)
EqYears_FirstSeen(d) == Unique(Column(d, "year"))

EqYears(d) == Sorted(Range(Column(d, "year")))

EqRow(d, has_crop_id, crop_id, year) ==
    LET Cell(season) == EquityCell(EqSubset(d, has_crop_id, crop_id, year, season))
    IN  [year |-> year, annual |-> Cell(0), kharif |-> Cell(1), rabi |-> Cell(2),
         zaid |-> Cell(3)]

\* calc_avg counting a None entry as 0
calc_avg_NoneAsZero(values) ==
    IF values = <<>> THEN Some(0)
    ELSE Some(MeanOfRounded([k \in 1..Len(values) |->
                                IF HasValue(values[k]) THEN Val(values[k]) ELSE 0], 3))

calc_avg(values) ==
    LET valid == Values(values)
    IN  IF valid = <<>> THEN Some(0) ELSE Some(MeanOfRounded(valid, 3))

EqRequiredCols == <<"year", "Season", "status", "ETa">>

\* read_csv and the required-columns check of compute_equity_from_csv
EqReadCsv ==
    /\ module = "equity"
    /\ pc = "read"
    /\ LET col == MissingColumn(EqRequiredCols, columns)
       IN  IF HasValue(col)
           THEN pc' = "raised" /\ error' = Some(ValueError(Val(col)))
           ELSE pc' = "years" /\ error' = error
    /\ UNCHANGED <<module, args, columns, df, i, season_results, summary, average,
                   returned, requests, files, outputs>>

EqAverageBlock(results) ==
    [kharif |-> calc_avg(Column(results, "kharif")),
     rabi |-> calc_avg(Column(results, "rabi")),
     zaid |-> calc_avg(Column(results, "zaid")),
     annual |-> calc_avg(Column(results, "annual"))]

\* one iteration of "for year in years" of compute_equity_from_csv
EqComputeYear ==
    /\ module = "equity"
    /\ pc = "years"
    /\ i <= Len(EqYears(df))
    /\ summary' = Append(summary,
                         EqRow(df, "CropID" \in columns,
                               EqCropId(df, "CropID" \in columns, args.crop_id),
                               EqYears(df)[i]))
    /\ i' = i + 1
    /\ UNCHANGED <<module, args, columns, df, pc, season_results, average, returned, error,
                   requests, files, outputs>>

\* the average block of compute_equity_from_csv
EqAverage ==
    /\ module = "equity"
    /\ pc = "years"
    /\ i > Len(EqYears(df))
    /\ average' = EqAverageBlock(summary)
    /\ pc' = "done"
    /\ UNCHANGED <<module, args, columns, df, i, season_results, summary, returned, error,
                   requests, files, outputs>>

\* the whole function, from the file and crop_id to what it returns or raises
compute_equity_from_csv(file, crop_id) ==
    LET col == MissingColumn(EqRequiredCols, file.columns)
        has_crop_id == "CropID" \in file.columns
        years == EqYears(file.rows)
        results == Tuple([k \in 1..Len(years) |->
                             EqRow(file.rows, has_crop_id,
                                   EqCropId(file.rows, has_crop_id, crop_id), years[k])])
    IN  IF HasValue(col) THEN Raise(ValueError(Val(col)))
        ELSE Return([summary |-> results, average |-> EqAverageBlock(results)])

-----------------------------------------------------------------------------
(* cropping_intensity.py and irrigation_utilization.py                     *)
(* cca is a rational; a table row is [year, crops] with crops[id] the      *)
(* entry 'crop_<id>'; the 'AVERAGE' row of a table is its average field.   *)

\* "round(x / cca, k) if cca != 0 else 0" for the test "cca > 0"
Ratio_NonZeroGuard(x, cca, k) == IF cca # RZero THEN Round(RDiv(x, cca), k) ELSE 0

\* round(x / cca, k) if cca > 0 else 0
Ratio(x, cca, k) == IF RLess(RZero, cca) THEN Round(RDiv(x, cca), k) ELSE 0

crop_ids == <<1, 2, 3, 4, 5, 6, 7, 8>>

YearData(d, year) == SelectSeq(d, LAMBDA r : r.year = year)

\* crop_data['Area'].sum() if not crop_data.empty else 0
CropArea(year_data, crop_id) ==
    RSum(Column(SelectSeq(year_data, LAMBDA r : r.CropID = crop_id), "Area"))

\* Table 1: the areas by crop id, rounded to whole numbers
CroppedAreaRow(d, year) ==
    [year |-> year,
     crops |-> Fn([c \in Range(crop_ids) |-> Round(CropArea(YearData(d, year), c), 0)])]

\* Table 2: the areas by crop id over cca, at 3 decimals
NormalizedAreaRow(d, cca, year) ==
    [year |-> year,
     crops |-> Fn([c \in Range(crop_ids) |-> Ratio(CropArea(YearData(d, year), c), cca, 3)])]

\* Table 3: year_data['Area'].sum() and its ratio to cca
IntensityRow(d, cca, year) ==
    LET total_cropped_area == RSum(Column(YearData(d, year), "Area"))
    IN  [year |-> year,
         cropping_intensity |-> Ratio(total_cropped_area, cca, 2),
         total_cropped_area |-> Round(total_cropped_area, 0)]

\* round(sum(values) / len(values), k) if values else 0
AvgOrZero(values, k) == IF values = <<>> THEN 0 ELSE MeanOfRounded(values, k)

CropTable(rows, k) ==
    [data |-> rows,
     average |-> Fn([c \in Range(crop_ids) |->
                        AvgOrZero([n \in 1..Len(rows) |-> rows[n].crops[c]], k)])]

compute_cropping_intensity_from_csv(file, cca) ==
    LET col == MissingColumn(<<"year", "Area">>, file.columns)
        years == Sorted(Range(Column(file.rows, "year")))
        cropped_area_data == Tuple([n \in 1..Len(years) |-> CroppedAreaRow(file.rows, years[n])])
        normalized_area_data ==
            Tuple([n \in 1..Len(years) |-> NormalizedAreaRow(file.rows, cca, years[n])])
        intensity_data == Tuple([n \in 1..Len(years) |-> IntensityRow(file.rows, cca, years[n])])
    IN  IF HasValue(col) THEN Raise(ValueError(Val(col)))
        ELSE IF "CropID" \notin file.columns THEN Raise(ValueError("CropID"))
        ELSE Return(
            [cropped_area |-> CropTable(cropped_area_data, 0),
             normalized_area |-> CropTable(normalized_area_data, 3),
             intensity |->
                 [data |-> intensity_data,
                  average |->
                      [cropping_intensity |->
                           AvgOrZero(Column(intensity_data, "cropping_intensity"), 2),
                       total_cropped_area |->
                           AvgOrZero(Column(intensity_data, "total_cropped_area"), 0)]],
             cca |-> cca])

\* one entry of 'data': the irrigated area of the year and its ratio to cca
UtilizationRow(d, cca, year) ==
    LET irrigated_data == SelectSeq(YearData(d, year),
                                    LAMBDA r : Upper(r.status) = "IRRIGATED")
        irrigated_area == RSum(Column(irrigated_data, "Area"))
    IN  [year |-> year,
         irrigatedArea |-> Round(irrigated_area, 2),
         utilizationRatio |-> Ratio(irrigated_area, cca, 4)]

compute_irrigation_utilization_from_csv(file, cca) ==
    LET col == MissingColumn(<<"year", "Area", "status">>, file.columns)
        years == Sorted(Range(Column(file.rows, "year")))
    IN  IF HasValue(col) THEN Raise(ValueError(Val(col)))
        ELSE Return([data |-> Tuple([n \in 1..Len(years) |->
                                        UtilizationRow(file.rows, cca, years[n])]),
                     cca |-> cca])

\* a call of compute_cropping_intensity_from_csv(csv_path, cca)
CiCompute ==
    /\ module = "cropping_intensity"
    /\ pc = "read"
    /\ LET r == compute_cropping_intensity_from_csv([columns |-> columns, rows |-> df],
                                                    args.cca)
       IN  /\ returned' = r.value
           /\ error' = r.error
           /\ pc' = IF HasValue(r.error) THEN "raised" ELSE "done"
    /\ UNCHANGED <<module, args, columns, df, i, season_results, summary, average,
                   requests, files, outputs>>

\* a call of compute_irrigation_utilization_from_csv(csv_path, cca)
IuCompute ==
    /\ module = "irrigation_utilization"
    /\ pc = "read"
    /\ LET r == compute_irrigation_utilization_from_csv([columns |-> columns, rows |-> df],
                                                        args.cca)
       IN  /\ returned' = r.value
           /\ error' = r.error
           /\ pc' = IF HasValue(r.error) THEN "raised" ELSE "done"
    /\ UNCHANGED <<module, args, columns, df, i, season_results, summary, average,
                   requests, files, outputs>>

-----------------------------------------------------------------------------
(* server.py: the POST handlers calculate_adequacy,                        *)
(* calculate_cropping_intensity and calculate_irrigation_utilization, run  *)
(* by the threaded development server, one thread per request.             *)
(* requests[r] is one request and the locals of its handler:               *)
(*   endpoint, cca (the form value parsed as float, None when absent),     *)
(*   file (None without a 'file' part, else [filename, content]),          *)
(*   pc, filepath, result, response ([status, body]).                      *)
(* files is the file system: path |-> content, a path being <<folder,      *)
(* name>>.                                                                 *)

UPLOAD_FOLDER == "tmp"

\* default_path of the three handlers
DefaultPath == <<"public/data", "Data_perSeason_perCrop.csv">>

CcaEndpoints == {"cropping-intensity", "irrigation-utilization"}

\* filename.rsplit('.', 1)[1].lower() in ALLOWED_EXTENSIONS, on the names used
allowed_file(filename) == filename \in {"data.csv", "../data.csv"}

\* werkzeug's secure_filename on the names used: path separators and leading
\* dots are dropped
secure_filename(filename) == IF filename = "../data.csv" THEN "data.csv" ELSE filename

\* "if not cca" alone for the test "if not cca or cca <= 0"
CcaRejected_AbsentOnly(cca) == cca = None

\* if not cca or cca <= 0
CcaRejected(cca) == cca = None \/ Val(cca) = RZero \/ RLeq(Val(cca), RZero)

\* compute_*_from_csv(path, ...) of the endpoint on the content of the file
Call(endpoint, file, cca) ==
    IF endpoint = "adequacy" THEN compute_adequacy_from_csv(file)
    ELSE IF endpoint = "cropping-intensity"
    THEN compute_cropping_intensity_from_csv(file, Val(cca))
    ELSE compute_irrigation_utilization_from_csv(file, Val(cca))

\* jsonify(...), status
Response(status, body) == Some([status |-> status, body |-> body])

FileNotFoundError(path) == [type |-> "FileNotFoundError", path |-> path]

\* a handler ends with a response
Respond(r, resp) ==
    requests' = [requests EXCEPT ![r].pc = "done", ![r].response = resp]

\* the handler up to file.save(filepath): the cca test, the default file when
\* no file is sent, the tests of the file name, the save
Receive(r) ==
    LET q == requests[r]
    IN  /\ q.pc = "start"
        /\ IF q.endpoint \in CcaEndpoints /\ CcaRejected(q.cca)
           THEN /\ Respond(r, Response(400,
                       [error |-> "Valid CCA (Culturable Command Area) is required"]))
                /\ files' = files
           ELSE IF q.file = None
           THEN /\ IF DefaultPath \in DOMAIN files
                   THEN LET res == Call(q.endpoint, files[DefaultPath], q.cca)
                        IN  IF HasValue(res.error)
                            THEN Respond(r, Response(500, [error |-> Val(res.error)]))
                            ELSE requests' = [requests EXCEPT
                                                 ![r].pc = "done",
                                                 ![r].result = res.value,
                                                 ![r].response = Response(200, Val(res.value))]
                   ELSE Respond(r, Response(400,
                            [error |-> "No file provided and default file not found"]))
                /\ files' = files
           ELSE IF Val(q.file).filename = ""
           THEN Respond(r, Response(400, [error |-> "No file selected"])) /\ files' = files
           ELSE IF ~allowed_file(Val(q.file).filename)
           THEN /\ Respond(r, Response(400,
                       [error |-> "File type not allowed. Only CSV files are accepted"]))
                /\ files' = files
           ELSE LET filepath == <<UPLOAD_FOLDER, secure_filename(Val(q.file).filename)>>
                IN  /\ files' = (filepath :> Val(q.file).content) @@ files
                    /\ requests' = [requests EXCEPT ![r].pc = "saved",
                                                    ![r].filepath = Some(filepath)]
        /\ UNCHANGED <<module, args, columns, df, pc, i, season_results, summary, average,
                       returned, error, outputs>>

\* result = compute_*_from_csv(filepath, ...): the file is read as it is now;
\* an exception (no such file, a missing column) ends the handler with 500
ComputeResult(r) ==
    LET q == requests[r]
        filepath == Val(q.filepath)
    IN  /\ q.pc = "saved"
        /\ IF filepath \notin DOMAIN files
           THEN Respond(r, Response(500, [error |-> FileNotFoundError(filepath)]))
           ELSE LET res == Call(q.endpoint, files[filepath], q.cca)
                IN  IF HasValue(res.error)
                    THEN Respond(r, Response(500, [error |-> Val(res.error)]))
                    ELSE requests' = [requests EXCEPT ![r].pc = "computed",
                                                      ![r].result = res.value]
        /\ UNCHANGED <<module, args, columns, df, pc, i, season_results, summary, average,
                       returned, error, files, outputs>>

\* os.remove(filepath) and the response; removing a file that is gone raises
CleanUp(r) ==
    LET q == requests[r]
        filepath == Val(q.filepath)
    IN  /\ q.pc = "computed"
        /\ IF filepath \in DOMAIN files
           THEN /\ files' = [path \in DOMAIN files \ {filepath} |-> files[path]]
                /\ Respond(r, Response(200, Val(q.result)))
           ELSE /\ files' = files
                /\ Respond(r, Response(500, [error |-> FileNotFoundError(filepath)]))
        /\ UNCHANGED <<module, args, columns, df, pc, i, season_results, summary, average,
                       returned, error, outputs>>

-----------------------------------------------------------------------------
(* A further call of the same compute_*_from_csv on the same file and the   *)
(* same parameters.  outputs keeps what the calls before returned or       *)
(* raised, in call order.                                                  *)

\* what a finished call hands back: the returned dict or the exception
Output ==
    [pc |-> pc, season_results |-> season_results, summary |-> summary,
     average |-> average, returned |-> returned, error |-> error]

\* a call whose result containers are those of the call before
Invoke_KeepResults ==
    /\ pc \in {"done", "raised"}
    /\ Len(outputs) < MaxCalls - 1
    /\ outputs' = Append(outputs, Output)
    /\ pc' = "read"
    /\ i' = 1
    /\ returned' = None
    /\ error' = None
    /\ UNCHANGED <<module, args, columns, df, season_results, summary, average, requests,
                   files>>

\* the next call: the locals of the function body are created anew
\* (season_results = {}, summary = [], results = [], the loops from the start)
Invoke ==
    /\ pc \in {"done", "raised"}
    /\ Len(outputs) < MaxCalls - 1
    /\ outputs' = Append(outputs, Output)
    /\ pc' = "read"
    /\ i' = 1
    /\ season_results' = <<>>
    /\ summary' = <<>>
    /\ average' = <<>>
    /\ returned' = None
    /\ error' = None
    /\ UNCHANGED <<module, args, columns, df, requests, files>>

-----------------------------------------------------------------------------
(* Record sets the modules are run on *)

Years == 1..MaxYear
SeqsUpTo(S, n) == UNION {[1..k -> S] : k \in 0..n}

Row(y, s, c, m) ==
    [year |-> y, Season |-> s, CropType |-> c, CropID |-> m.CropID, Area |-> m.Area,
     status |-> m.status, ETa |-> m.ETa, ETa90 |-> m.ETa90, TBP |-> m.TBP]

Measure(area, st, eta, eta90, tbp) ==
    [Area |-> area, status |-> st, ETa |-> RInt(eta), ETa90 |-> RInt(eta90),
     TBP |-> RInt(tbp), CropID |-> 1]

\* per-row measurements of the Adequacy cell cases: fractional, zero and tiny
\* areas, ETa above and below ETa90, zero and negative ETa90, a row not irrigated
AdqCellMeasures ==
    { Measure(Q(3, 2), "IRRIGATED", 1, 2, 0),
      Measure(Q(5, 2), "IRRIGATED", 3, 2, 0),
      Measure(Q(0, 1), "IRRIGATED", 1, 2, 0),
      Measure(Q(1, 4), "IRRIGATED", 1, 4, 0),
      Measure(Q(1, 1), "IRRIGATED", 1, -1, 0),
      Measure(Q(1, 1), "IRRIGATED", 1, 0, 0),
      Measure(Q(1, 1), "UNIRRIGATED", 1, 2, 0) }

\* the two-year, two-crop fixture: both crops irrigated with a positive area in
\* year 1, one crop at zero area and any measurement of the other in year 2
AdqPositive == {m \in AdqCellMeasures : m.status = "IRRIGATED" /\ RLess(RZero, m.Area)
                                        /\ RLess(RZero, m.ETa90)}
AdqZeroArea == {m \in AdqCellMeasures : m.status = "IRRIGATED" /\ m.Area = RZero}

AdqFixtures ==
    { <<Row(1, 1, "Wheat", a), Row(1, 1, "Rice", b), Row(2, 1, c[1], z), Row(2, 1, c[2], m)>> :
        a \in AdqPositive, b \in AdqPositive, z \in AdqZeroArea, m \in AdqCellMeasures,
        c \in {<<"Wheat", "Rice">>, <<"Rice", "Wheat">>} }

\* record sets of two crops in one season, record sets of one crop spread over
\* the seasons, and the fixtures
AdqInputs ==
    SeqsUpTo({Row(y, 1, c, m) : y \in Years, c \in {"Wheat", "Rice"}, m \in AdqCellMeasures},
             MaxRows)
    \cup SeqsUpTo({Row(y, s, "Wheat", m) :
                      y \in Years, s \in {0, 1, 2},
                      m \in { Measure(Q(3, 2), "IRRIGATED", 1, 2, 0),
                              Measure(Q(1, 1), "IRRIGATED", 1, 4, 0),
                              Measure(Q(0, 1), "IRRIGATED", 1, 2, 0) }},
                 MaxRows)
    \cup AdqFixtures

AllColumns == {"year", "Season", "Crop Type", "CropID", "Area", "status", "ETa", "ETa90", "TBP"}

InitWith(m, inputs, cols, params, start) ==
    /\ module = m
    /\ args \in params
    /\ columns \in cols
    /\ df \in inputs
    /\ pc = start
    /\ i = 1
    /\ season_results = <<>>
    /\ summary = <<>>
    /\ average = <<>>
    /\ returned = None
    /\ error = None
    /\ requests = <<>>
    /\ files = <<>>
    /\ outputs = <<>>

InitAdq == InitWith("adequacy", AdqInputs, {AllColumns}, {<<>>}, "read")

NextAdq == AdqReadCsv \/ AdqProcessSeason \/ AdqSummarize

SpecAdq == InitAdq /\ [][NextAdq]_vars

\* per-row measurements of the Productivity cases: whole, zero and tiny areas,
\* ETa = 0, a row not irrigated
ProdMeasure(area, st, eta, tbp) == Measure(area, st, eta, 1, tbp)

ProdCellMeasures ==
    { ProdMeasure(Q(1, 1), "IRRIGATED", 2, 40),
      ProdMeasure(Q(3, 1), "IRRIGATED", 4, 30),
      ProdMeasure(Q(0, 1), "IRRIGATED", 5, 20),
      ProdMeasure(Q(1, 4), "IRRIGATED", 5, 20),
      ProdMeasure(Q(1, 1), "IRRIGATED", 0, 40),
      ProdMeasure(Q(1, 1), "UNIRRIGATED", 2, 40) }

\* record sets of two crops in one season and of one crop spread over the seasons
ProdInputs ==
    SeqsUpTo({Row(y, 1, c, m) : y \in Years, c \in {"Wheat", "Rice"}, m \in ProdCellMeasures},
             MaxRows)
    \cup SeqsUpTo({Row(y, s, "Wheat", m) :
                      y \in Years, s \in {0, 1, 2, 4},
                      m \in { ProdMeasure(Q(1, 1), "IRRIGATED", 2, 40),
                              ProdMeasure(Q(3, 1), "IRRIGATED", 4, 30),
                              ProdMeasure(Q(0, 1), "IRRIGATED", 5, 20) }},
                 MaxRows)

InitProd == InitWith("productivity", ProdInputs, {AllColumns}, {<<>>}, "read")

NextProd == ProdParseCsv \/ ProdGenerateSeason \/ ProdSummarize

SpecProd == InitProd /\ [][NextProd]_vars

\* per-row measurements of the Equity cases: ETa spread over two crop ids, a
\* status in mixed case, a negative ETa, a row not irrigated
EqMeasure(st, eta, id) ==
    [Area |-> RInt(1), status |-> st, ETa |-> RInt(eta), ETa90 |-> RInt(1),
     TBP |-> RZero, CropID |-> id]

EqRows ==
    {Row(y, s, "Wheat", m) : y \in Years, s \in {0, 1},
                             m \in { EqMeasure("IRRIGATED", 1, 1),
                                     EqMeasure("IRRIGATED", 3, 1),
                                     EqMeasure("Irrigated", 2, 2),
                                     EqMeasure("IRRIGATED", -3, 1),
                                     EqMeasure("UNIRRIGATED", 5, 1) }}

\* two irrigated rows in each of two years of one season
EqPairs ==
    { <<Row(1, s, "Wheat", a), Row(1, s, "Wheat", b), Row(2, s, "Wheat", c),
        Row(2, s, "Wheat", d)>> :
        s \in {0, 1},
        a \in {EqMeasure("IRRIGATED", 1, 1)},
        b \in {EqMeasure("IRRIGATED", 3, 1), EqMeasure("IRRIGATED", -3, 1)},
        c \in {EqMeasure("IRRIGATED", 1, 1), EqMeasure("IRRIGATED", 3, 1)},
        d \in {EqMeasure("IRRIGATED", 3, 1), EqMeasure("Irrigated", 2, 2)} }

\* one year with two Annual and two Kharif rows, of one or of two crop ids
EqCropMix ==
    { <<Row(1, 0, "Wheat", a), Row(1, 0, "Wheat", b), Row(1, 1, "Wheat", a),
        Row(1, 1, "Wheat", c)>> :
        a \in {EqMeasure("IRRIGATED", 1, 1)},
        b \in {EqMeasure("IRRIGATED", 3, 1), EqMeasure("Irrigated", 2, 2)},
        c \in {EqMeasure("IRRIGATED", 3, 1), EqMeasure("Irrigated", 2, 2)} }

EqInputs == SeqsUpTo(EqRows, MaxRows) \cup EqPairs \cup EqCropMix

InitEq ==
    InitWith("equity", EqInputs, {AllColumns, AllColumns \ {"CropID"}},
             {[crop_id |-> None], [crop_id |-> Some(2)]}, "read")

NextEq == EqReadCsv \/ EqComputeYear \/ EqAverage

SpecEq == InitEq /\ [][NextEq]_vars

\* the modules with a year-indexed summary and an average block
Init == InitAdq \/ InitEq \/ InitProd

Next == NextAdq \/ NextEq \/ NextProd

Spec == Init /\ [][Next]_vars

NextSummaries == NextAdq \/ NextEq

SpecSummaries == (InitAdq \/ InitEq) /\ [][NextSummaries]_vars

\* record sets of one crop over the seasons the two conventions name: 0, 1, 4
SeasonMixRows(measures) ==
    {Row(y, s, "Wheat", m) : y \in Years, s \in {0, 1, 4}, m \in measures}

SpecSeasons ==
    /\ \/ InitWith("adequacy",
                   SeqsUpTo(SeasonMixRows({ Measure(Q(1, 1), "IRRIGATED", 1, 2, 0),
                                            Measure(Q(1, 1), "IRRIGATED", 1, 4, 0) }),
                            MaxRows),
                   {AllColumns}, {<<>>}, "read")
       \/ InitWith("equity",
                   SeqsUpTo(SeasonMixRows({ EqMeasure("IRRIGATED", 1, 1),
                                            EqMeasure("IRRIGATED", 3, 1),
                                            EqMeasure("IRRIGATED", 2, 2) }),
                            MaxRows),
                   {AllColumns, AllColumns \ {"CropID"}},
                   {[crop_id |-> None], [crop_id |-> Some(2)]}, "read")
       \/ InitWith("productivity",
                   SeqsUpTo(SeasonMixRows({ ProdMeasure(Q(1, 1), "IRRIGATED", 2, 40),
                                            ProdMeasure(Q(3, 1), "IRRIGATED", 4, 30) }),
                            MaxRows),
                   {AllColumns}, {<<>>}, "read")
    /\ [][Next]_vars

\* per-row measurements of the reference-area cases: fractional and whole
\* areas, crop ids inside and outside 1..8, a status in mixed case, a row not
\* irrigated
CcaMeasure(area, st, id) ==
    [Area |-> area, status |-> st, ETa |-> RInt(1), ETa90 |-> RInt(1), TBP |-> RZero,
     CropID |-> id]

CcaRows ==
    {Row(y, 1, "Wheat", m) : y \in Years,
                             m \in { CcaMeasure(Q(3, 2), "IRRIGATED", 1),
                                     CcaMeasure(Q(1, 1), "Irrigated", 1),
                                     CcaMeasure(Q(2, 1), "UNIRRIGATED", 2),
                                     CcaMeasure(Q(1, 1), "IRRIGATED", 9),
                                     CcaMeasure(Q(1, 4), "IRRIGATED", 8) }}

\* reference areas: negative, zero, positive
CcaValues == {[cca |-> RInt(-1)], [cca |-> RZero], [cca |-> RInt(2)], [cca |-> RInt(3)]}

InitCca ==
    \E m \in {"cropping_intensity", "irrigation_utilization"} :
        InitWith(m, SeqsUpTo(CcaRows, MaxRows), {AllColumns}, CcaValues, "read")

NextCca == CiCompute \/ IuCompute

SpecCca == InitCca /\ [][NextCca]_vars

\* files with all the columns, with one column less, without both crop columns
ColumnSets ==
    {AllColumns} \cup {AllColumns \ {c} : c \in AllColumns}
                 \cup {AllColumns \ {"Crop Type", "CropID"}}

SchemaRows ==
    {Row(y, 1, "Wheat", m) : y \in Years,
                             m \in { CcaMeasure(Q(1, 1), "IRRIGATED", 1),
                                     CcaMeasure(Q(2, 1), "IRRIGATED", 2) }}

NextSchema == Next \/ NextCca

SpecSchema ==
    /\ \/ \E m \in {"adequacy", "productivity"} :
              InitWith(m, SeqsUpTo(SchemaRows, MaxRows), ColumnSets, {<<>>}, "read")
       \/ InitWith("equity", SeqsUpTo(SchemaRows, MaxRows), ColumnSets,
                   {[crop_id |-> None], [crop_id |-> Some(2)]}, "read")
       \/ \E m \in {"cropping_intensity", "irrigation_utilization"} :
              InitWith(m, SeqsUpTo(SchemaRows, MaxRows), ColumnSets, {[cca |-> RInt(2)]},
                       "read")
    /\ [][NextSchema]_vars

NextEmptySeason == NextAdq \/ NextProd

\* record sets with seasons whose rows are all filtered out: rows of the
\* excluded crop (Adequacy), rows that are not irrigated (Productivity)
SpecEmptySeason ==
    /\ \/ InitWith("adequacy",
                   SeqsUpTo({Row(y, s, c, m) :
                                y \in Years, s \in {1, 2}, c \in {"Wheat", "Other Unirrigated"},
                                m \in { Measure(Q(1, 1), "IRRIGATED", 1, 2, 0),
                                        Measure(Q(2, 1), "IRRIGATED", 1, 4, 0) }},
                            MaxRows),
                   {AllColumns}, {<<>>}, "read")
       \/ InitWith("productivity",
                   SeqsUpTo({Row(y, s, "Wheat", m) :
                                y \in Years, s \in {1, 4},
                                m \in { ProdMeasure(Q(1, 1), "IRRIGATED", 2, 40),
                                        ProdMeasure(Q(3, 1), "IRRIGATED", 4, 30),
                                        ProdMeasure(Q(1, 1), "UNIRRIGATED", 2, 40) }},
                            MaxRows),
                   {AllColumns}, {<<>>}, "read")
    /\ [][NextEmptySeason]_vars

\* uploads: two one-row files with different areas; file names that are
\* empty, not CSV, and two that secure_filename maps to the same name
UploadContents ==
    { [columns |-> AllColumns,
       rows |-> <<Row(1, 1, "Wheat", CcaMeasure(RInt(a), "IRRIGATED", 1))>>] : a \in {2, 4} }

DefaultContent ==
    [columns |-> AllColumns,
     rows |-> <<Row(2, 1, "Wheat", CcaMeasure(RInt(6), "IRRIGATED", 1))>>]

Uploads ==
    {None} \cup {Some([filename |-> n, content |-> c]) :
                    n \in {"data.csv", "../data.csv"}, c \in UploadContents}
           \cup {Some([filename |-> n, content |-> DefaultContent]) : n \in {"", "notes.txt"}}

RequestInputs ==
    {[endpoint |-> "adequacy", cca |-> None, file |-> f] : f \in Uploads}
    \cup {[endpoint |-> e, cca |-> c, file |-> f] :
             e \in CcaEndpoints, c \in {None, Some(RZero), Some(RInt(-1)), Some(RInt(2))},
             f \in Uploads}

NewRequest(in) ==
    [endpoint |-> in.endpoint, cca |-> in.cca, file |-> in.file, pc |-> "start",
     filepath |-> None, result |-> None, response |-> None]

\* the server before any request is handled: no module variable is in use,
\* the default file is there or not
ServerInit ==
    /\ module = "server"
    /\ args = <<>>
    /\ columns = {}
    /\ df = <<>>
    /\ pc = "serving"
    /\ i = 1
    /\ season_results = <<>>
    /\ summary = <<>>
    /\ average = <<>>
    /\ returned = None
    /\ error = None
    /\ files \in {<<>>, DefaultPath :> DefaultContent}
    /\ outputs = <<>>

InitServer ==
    /\ ServerInit
    /\ \E ins \in [1..NumRequests -> RequestInputs] :
          requests = [r \in 1..NumRequests |-> NewRequest(ins[r])]

NextServer == \E r \in DOMAIN requests : Receive(r) \/ ComputeResult(r) \/ CleanUp(r)

SpecServer == InitServer /\ [][NextServer]_vars

\* uploads to the three endpoints: a file with all the columns and a file
\* without the year column
UploadInputs ==
    {[endpoint |-> e,
      cca |-> IF e \in CcaEndpoints THEN Some(RInt(2)) ELSE None,
      file |-> Some([filename |-> "data.csv",
                     content |-> [columns |-> cols, rows |-> DefaultContent.rows]])] :
        e \in {"adequacy"} \cup CcaEndpoints,
        cols \in {AllColumns, AllColumns \ {"year"}}}

InitUploads ==
    /\ ServerInit
    /\ \E ins \in [1..NumRequests -> UploadInputs] :
          requests = [r \in 1..NumRequests |-> NewRequest(ins[r])]

SpecUploads == InitUploads /\ [][NextServer]_vars

\* record sets of one crop with ETa below, at and above ETa90, of either sign,
\* and ETa above ETa90 by half a hundredth of it
SpecAdqRange ==
    /\ InitWith("adequacy",
                SeqsUpTo({Row(y, 1, "Wheat", m) :
                             y \in Years,
                             m \in { Measure(Q(1, 1), "IRRIGATED", -1, 2, 0),
                                     Measure(Q(1, 1), "IRRIGATED", 1, 2, 0),
                                     Measure(Q(1, 1), "IRRIGATED", 3, 2, 0),
                                     Measure(Q(1, 1), "IRRIGATED", 201, 200, 0),
                                     Measure(Q(1, 1), "IRRIGATED", -3, -1, 0),
                                     Measure(Q(1, 1), "IRRIGATED", 1, -1, 0) }},
                         MaxRows),
                {AllColumns}, {<<>>}, "read")
    /\ [][NextAdq]_vars

\* record sets whose rows differ in the spelling of the status, for the four
\* modules that filter on it
SpecStatus ==
    /\ \E m \in {"adequacy", "productivity", "equity", "irrigation_utilization"} :
          InitWith(m,
                   SeqsUpTo({Row(y, 1, "Wheat", CcaMeasure(RInt(1), st, 1)) :
                                y \in Years,
                                st \in {"IRRIGATED", "Irrigated", "irrigated", "UNIRRIGATED"}},
                            MaxRows),
                   {AllColumns},
                   {IF m = "equity" THEN [crop_id |-> None]
                    ELSE IF m = "irrigation_utilization" THEN [cca |-> RInt(2)]
                    ELSE <<>>},
                   "read")
    /\ [][Next \/ IuCompute]_vars

\* record sets for repeated calls: two crops and two crop ids, in any order of
\* years and crops
TwiceRows ==
    {Row(y, 1, c, m) :
        y \in Years, c \in {"Wheat", "Rice"},
        m \in { Measure(Q(1, 1), "IRRIGATED", 1, 2, 40),
                [Measure(Q(2, 1), "IRRIGATED", 3, 4, 30) EXCEPT !.CropID = 2] }}

NextTwice == NextSchema \/ Invoke

SpecTwice ==
    /\ \/ \E m \in {"adequacy", "productivity"} :
              InitWith(m, SeqsUpTo(TwiceRows, MaxRows), {AllColumns}, {<<>>}, "read")
       \/ InitWith("equity", SeqsUpTo(TwiceRows, MaxRows), {AllColumns},
                   {[crop_id |-> None], [crop_id |-> Some(2)]}, "read")
       \/ \E m \in {"cropping_intensity", "irrigation_utilization"} :
              InitWith(m, SeqsUpTo(TwiceRows, MaxRows), {AllColumns}, {[cca |-> RInt(2)]},
                       "read")
    /\ [][NextTwice]_vars

-----------------------------------------------------------------------------
(* Reference quantities, taken from the record set alone *)

\* the IRRIGATED rows of one season, year and crop
CellRows(s, y, c) ==
    SelectSeq(df, LAMBDA r : r.Season = s /\ r.year = y /\ r.CropType = c
                             /\ r.status = "IRRIGATED")

ExactArea(s, y, c) == RSum(Column(CellRows(s, y, c), "Area"))

\* v, kept at k decimals, is x rounded: |v / 10^k - x| <= 1 / (2 * 10^k)
Near(v, x, k) ==
    LET diff == RSub(Dec(v, k), x)
    IN  RLeq(Q(Abs(diff[1]), diff[2]), Q(1, 2 * Pow10(k)))

AdqCells == {<<s, y, c>> \in (0..3) \X Years \X {"Wheat", "Rice", "Other Unirrigated"} :
                /\ s \in DOMAIN season_results
                /\ y \in DOMAIN season_results[s].adequacy_matrix
                /\ c \in DOMAIN season_results[s].adequacy_matrix[y]}

AdqCell(s, y, c) == season_results[s].adequacy_matrix[y][c]

AdqYears == {<<s, y>> \in (0..3) \X Years :
                s \in DOMAIN season_results /\ y \in DOMAIN season_results[s].combined_adequacy}

\* the crops of a season and year whose cell has a value, in crop_types order
ValuedCrops(s, y) ==
    SelectSeq(season_results[s].crop_types,
              LAMBDA c : <<s, y, c>> \in AdqCells /\ HasValue(AdqCell(s, y, c)))

-----------------------------------------------------------------------------
(* Reference quantities of the Equity and Productivity claims *)

SeasonKeys == {"kharif", "rabi", "zaid", "annual"}

\* the season code behind a key of the summary, per module
SeasonOf(key) ==
    IF key = "kharif" THEN 1 ELSE IF key = "rabi" THEN 2 ELSE IF key = "zaid" THEN 3
    ELSE IF module = "productivity" THEN 4 ELSE 0

\* the rows an Equity cell of the summary is computed over
EqCellRows(year, key) ==
    EqSubset(df, "CropID" \in columns, EqCropId(df, "CropID" \in columns, args.crop_id),
             year, SeasonOf(key))

\* the IRRIGATED rows of a season, year and crop; those among them with Area > 0
ProdRows(s, y, c) == CellRows(s, y, c)
ProdRowsWithArea(s, y, c) == SelectSeq(CellRows(s, y, c), LAMBDA r : RLess(RZero, r.Area))

\* the IRRIGATED rows of a season and year with Area > 0, all crops together
YearRowsWithArea(s, y) ==
    SelectSeq(df, LAMBDA r : r.Season = s /\ r.year = y /\ r.status = "IRRIGATED"
                             /\ RLess(RZero, r.Area))

ProdCells == {<<s, y, c>> \in (1..4) \X Years \X {"Wheat", "Rice"} :
                 /\ s \in DOMAIN season_results
                 /\ y \in DOMAIN season_results[s].area.cells
                 /\ c \in DOMAIN season_results[s].area.cells[y]}

ProdYears == {<<s, y>> \in (1..4) \X Years :
                 s \in DOMAIN season_results
                 /\ y \in DOMAIN season_results[s].weighted_productivity}

\* the non-"no value" entries of one season column of the summary
SummaryValues(key) == Values(Column(summary, key))

\* avg is the mean of vals up to rounding, avg and vals kept at the same decimals
IsRoundedMean(avg, vals) ==
    LET total == RSum(Ints(vals))[1]
    IN  2 * Abs(Len(vals) * avg - total) <= Len(vals)

-----------------------------------------------------------------------------
(* C1: a cell carries a value only if its denominator condition holds      *)
(* strictly: an Adequacy cell only if the (year, crop) irrigated area is   *)
(* > 0 and mean(ETa90) > 0; an Equity cell only if at least 2 rows match   *)
(* and mean(ETa) > 0; a Productivity ETa/TBP cell only if the area is > 0. *)
C1_ValueOnlyIfDenominatorPositive ==
    pc = "done" =>
        /\ module = "adequacy" =>
              \A t \in AdqCells :
                  HasValue(AdqCell(t[1], t[2], t[3])) =>
                      /\ CellRows(t[1], t[2], t[3]) # <<>>
                      /\ RLess(RZero, ExactArea(t[1], t[2], t[3]))
                      /\ RLess(RZero, RMean(Column(CellRows(t[1], t[2], t[3]), "ETa90")))
        /\ module = "equity" =>
              \A k \in 1..Len(summary) : \A key \in SeasonKeys :
                  HasValue(summary[k][key]) =>
                      /\ Len(EqCellRows(summary[k].year, key)) >= 2
                      /\ RLess(RZero, RMean(Column(EqCellRows(summary[k].year, key), "ETa")))
        /\ module = "productivity" =>
              \A t \in ProdCells :
                  \/ HasValue(season_results[t[1]].eta.cells[t[2]][t[3]])
                  \/ HasValue(season_results[t[1]].tbp.cells[t[2]][t[3]])
                  => RLess(RZero, ExactArea(t[1], t[2], t[3]))

(* C2: an Adequacy cell is "no value" iff there is no IRRIGATED row for    *)
(* the season, year and crop, or the exact sum of Area over those rows is  *)
(* <= 0, or mean(ETa90) is zero; otherwise it is 1 - mean(ETa)/mean(ETa90) *)
(* rounded to 2 decimals.                                                  *)
C2_AdequacyCellIff ==
    pc = "done" /\ module = "adequacy" =>
        \A t \in AdqCells :
            LET rows == CellRows(t[1], t[2], t[3])
                blank == \/ rows = <<>>
                         \/ RLeq(ExactArea(t[1], t[2], t[3]), RZero)
                         \/ RMean(Column(rows, "ETa90")) = RZero
            IN  IF blank THEN AdqCell(t[1], t[2], t[3]) = None
                ELSE AdqCell(t[1], t[2], t[3]) =
                        Some(Round(RSub(RInt(1), RDiv(RMean(Column(rows, "ETa")),
                                                      RMean(Column(rows, "ETa90")))), 2))

(* C3: the combined adequacy of a season and year is                       *)
(* sum(adequacy_c * area_c) / sum(area_c) over the crops with a valued     *)
(* cell, area_c the sum of Area over the IRRIGATED rows, and "no value"    *)
(* exactly when no crop has a valued cell.                                 *)
C3_CombinedIsAreaWeighted ==
    pc = "done" /\ module = "adequacy" =>
        \A t \in AdqYears :
            LET s == t[1]
                y == t[2]
                crops == ValuedCrops(s, y)
                num == RSum([k \in 1..Len(crops) |->
                                RMul(Dec(Val(AdqCell(s, y, crops[k])), 2),
                                     ExactArea(s, y, crops[k]))])
                den == RSum([k \in 1..Len(crops) |-> ExactArea(s, y, crops[k])])
                combined == season_results[s].combined_adequacy[y]
            IN  IF crops = <<>> THEN combined = None
                ELSE /\ HasValue(combined)
                     /\ den # RZero
                     /\ Near(Val(combined), RDiv(num, den), 2)

\* crop k has IRRIGATED rows in season s and year y, with a positive area and ETa90 > 0
PositiveCell(s, y, k) ==
    /\ CellRows(s, y, k) # <<>>
    /\ RLess(RZero, ExactArea(s, y, k))
    /\ \A n \in 1..Len(CellRows(s, y, k)) : RLess(RZero, CellRows(s, y, k)[n].ETa90)

\* the fixture: season s holds two years y1, y2 and two crops z, c; both crops
\* are valid in y1; in y2 the irrigated area of z sums to zero and c is valid
FixtureCase(s, y1, y2, z, c) ==
    LET rows == SelectSeq(df, LAMBDA r : r.Season = s)
    IN  /\ y1 # y2 /\ z # c
        /\ Range(Column(rows, "year")) = {y1, y2}
        /\ Range(Column(rows, "CropType")) = {z, c}
        /\ PositiveCell(s, y1, z) /\ PositiveCell(s, y1, c)
        /\ CellRows(s, y2, z) # <<>> /\ ExactArea(s, y2, z) = RZero
        /\ PositiveCell(s, y2, c)

Fixtures == {t \in (0..3) \X Years \X Years \X {"Wheat", "Rice"} \X {"Wheat", "Rice"} :
                FixtureCase(t[1], t[2], t[3], t[4], t[5])}

(* C4: in the two-year, two-crop fixture the year-2 cell of the zero-area   *)
(* crop is "no value" and the year-2 combined adequacy equals the year-2   *)
(* cell of the other crop, whatever that crop's area.                      *)
C4_ZeroAreaCropFixture ==
    pc = "done" /\ module = "adequacy" =>
        \A t \in Fixtures :
            /\ AdqCell(t[1], t[3], t[4]) = None
            /\ season_results[t[1]].combined_adequacy[t[3]] = AdqCell(t[1], t[3], t[5])

\* the fixture has been processed, the other crop's year-2 cell has a value and
\* its area is not a whole number
C4_Witness ==
    /\ pc = "done" /\ module = "adequacy"
    /\ \E t \in Fixtures :
          /\ HasValue(AdqCell(t[1], t[3], t[5]))
          /\ ExactArea(t[1], t[3], t[5])[2] # 1

(* C5: the summary of compute_adequacy_from_csv has exactly one row, in    *)
(* ascending year order, for every year with a combined-adequacy entry in  *)
(* at least one season's result, and each season entry of the row is that  *)
(* season's combined adequacy of the year, or "no value".                  *)
C5_SummaryMergesAllSeasons ==
    pc = "done" /\ module = "adequacy" =>
        LET Combined(s, y) ==
                IF s \in DOMAIN season_results
                   /\ y \in DOMAIN season_results[s].combined_adequacy
                THEN season_results[s].combined_adequacy[y]
                ELSE None
            ys == {y \in Years : \E s \in DOMAIN season_results :
                                    y \in DOMAIN season_results[s].combined_adequacy}
        IN  /\ Column(summary, "year") = Sorted(ys)
            /\ \A k \in 1..Len(summary) :
                  /\ summary[k].kharif = Combined(1, summary[k].year)
                  /\ summary[k].rabi = Combined(2, summary[k].year)
                  /\ summary[k].zaid = Combined(3, summary[k].year)
                  /\ summary[k].annual = Combined(0, summary[k].year)

(* C6: every entry of the average block is a number; when no year has a    *)
(* value for the season the entry is 0, never "no value".                  *)
C6_AverageAlwaysNumber ==
    pc = "done" =>
        \A key \in SeasonKeys :
            /\ HasValue(average[key])
            /\ SummaryValues(key) = <<>> => average[key] = Some(0)

(* C7: for Adequacy and Equity each entry of the average block is the mean, *)
(* up to the final rounding, of the non-"no value" entries of that season's *)
(* column of the returned summary; "no value" rows count neither in the    *)
(* sum nor in the count.                                                   *)
C7_AverageIsMeanOfValues ==
    pc = "done" /\ module \in {"adequacy", "equity"} =>
        \A key \in SeasonKeys :
            /\ HasValue(average[key])
            /\ SummaryValues(key) # <<>> => IsRoundedMean(Val(average[key]), SummaryValues(key))

\* a finished Equity run whose summary column holds a value and a "no value"
C7_Witness ==
    /\ pc = "done" /\ module = "equity"
    /\ \E key \in SeasonKeys :
          /\ SummaryValues(key) # <<>>
          /\ Val(average[key]) # 0
          /\ \E k \in 1..Len(summary) : summary[k][key] = None

(* C8: the weighted productivity of a season and year is                   *)
(* sum(Area_i * productivity_i) / sum(Area_i) over the IRRIGATED rows of   *)
(* the season and year with Area_i > 0, all crops together; it is "no      *)
(* value" when there is no such row; the same value is the 'Average'       *)
(* column of the Productivity table row of the year.                       *)
C8_WeightedProductivity ==
    pc = "done" /\ module = "productivity" =>
        \A t \in ProdYears :
            LET rows == YearRowsWithArea(t[1], t[2])
                num == RSum([k \in 1..Len(rows) |->
                                RMul(rows[k].Area, RowProductivity(rows[k]))])
                den == RSum(Column(rows, "Area"))
                w == season_results[t[1]].weighted_productivity[t[2]]
            IN  /\ season_results[t[1]].productivity.row_avg[t[2]] = w
                /\ IF rows = <<>> THEN w = None
                   ELSE HasValue(w) /\ Near(Val(w), RDiv(num, den), 2)

\* a finished run with a year of three rows of two crops, of different areas
C8_Witness ==
    /\ pc = "done" /\ module = "productivity"
    /\ \E t \in ProdYears :
          LET rows == YearRowsWithArea(t[1], t[2])
          IN  /\ Len(rows) = 3
              /\ Cardinality(Range(Column(rows, "CropType"))) = 2
              /\ Cardinality(Range(Column(rows, "Area"))) > 1
              /\ HasValue(season_results[t[1]].weighted_productivity[t[2]])

\* the rounded mean of column f over a non-empty sequence of rows
RoundedMean(rows, f) == Round(RMean(Column(rows, f)), 0)

(* C9, as stated: the Area cell is the sum of Area over the matching       *)
(* IRRIGATED rows; the ETa and TBP cells are "no value" when the Area cell *)
(* is 0 and otherwise the mean of ETa, resp. TBP, over those rows; both    *)
(* are present or both "no value".                                         *)
C9_MeanOverMatchingRows ==
    pc = "done" /\ module = "productivity" =>
        \A t \in ProdCells :
            LET res == season_results[t[1]]
                rows == ProdRows(t[1], t[2], t[3])
                area == res.area.cells[t[2]][t[3]]
                eta == res.eta.cells[t[2]][t[3]]
                tbp == res.tbp.cells[t[2]][t[3]]
            IN  /\ area = Round(ExactArea(t[1], t[2], t[3]), 0)
                /\ HasValue(eta) <=> HasValue(tbp)
                /\ IF area = 0 THEN eta = None /\ tbp = None
                   ELSE /\ eta = Some(RoundedMean(rows, "ETa"))
                        /\ tbp = Some(RoundedMean(rows, "TBP"))

(* C9, amended: the Area cell is the sum of Area over the matching         *)
(* IRRIGATED rows rounded to an integer; the ETa and TBP cells are "no     *)
(* value" when the Area cell is 0 and otherwise the rounded mean of ETa,   *)
(* resp. TBP, over the matching rows with Area > 0; both are present or    *)
(* both "no value".                                                        *)
C9_MeanOverRowsWithArea ==
    pc = "done" /\ module = "productivity" =>
        \A t \in ProdCells :
            LET res == season_results[t[1]]
                rows == ProdRowsWithArea(t[1], t[2], t[3])
                area == res.area.cells[t[2]][t[3]]
                eta == res.eta.cells[t[2]][t[3]]
                tbp == res.tbp.cells[t[2]][t[3]]
            IN  /\ area = Round(ExactArea(t[1], t[2], t[3]), 0)
                /\ HasValue(eta) <=> HasValue(tbp)
                /\ IF area = 0 THEN eta = None /\ tbp = None
                   ELSE /\ rows # <<>>
                        /\ eta = Some(RoundedMean(rows, "ETa"))
                        /\ tbp = Some(RoundedMean(rows, "TBP"))

\* a finished run with a cell whose Area is 0 although a row with Area > 0 and
\* an ETa exists, and a cell with a zero-area row beside a row with Area > 0
C9_Witness ==
    /\ pc = "done" /\ module = "productivity"
    /\ \E t \in ProdCells :
          /\ season_results[t[1]].area.cells[t[2]][t[3]] = 0
          /\ ProdRowsWithArea(t[1], t[2], t[3]) # <<>>
    /\ \E t \in ProdCells :
          /\ season_results[t[1]].area.cells[t[2]][t[3]] > 0
          /\ Len(ProdRowsWithArea(t[1], t[2], t[3])) < Len(ProdRows(t[1], t[2], t[3]))
          /\ HasValue(season_results[t[1]].eta.cells[t[2]][t[3]])

\* the non-"no value" weighted productivities of a season, in year order
WeightedValues(s) ==
    Values([k \in 1..Len(season_results[s].years) |->
               season_results[s].weighted_productivity[season_results[s].years[k]]])

ProdKey(s) == IF s = 1 THEN "kharif" ELSE IF s = 2 THEN "rabi" ELSE IF s = 3 THEN "zaid"
              ELSE "annual"

(* C10: average_weighted_productivity of a season, also stored as          *)
(* productivity['Average']['Average'] and as the season's entry of the     *)
(* average block, is the plain mean over years of the non-"no value"       *)
(* weighted productivities; every such year counts once.                   *)
C10_GrandAverageIsPlainMean ==
    pc = "done" /\ module = "productivity" =>
        \A s \in DOMAIN season_results :
            LET awp == season_results[s].average_weighted_productivity
            IN  /\ season_results[s].productivity.avg_avg = awp
                /\ average[ProdKey(s)] = awp
                /\ WeightedValues(s) # <<>> =>
                      HasValue(awp) /\ IsRoundedMean(Val(awp), WeightedValues(s))

\* a finished run with two valued years of different total areas and different
\* weighted productivities
C10_Witness ==
    /\ pc = "done" /\ module = "productivity"
    /\ \E s \in DOMAIN season_results :
          /\ Len(WeightedValues(s)) = 2
          /\ WeightedValues(s)[1] # WeightedValues(s)[2]
          /\ RSum(Column(YearRowsWithArea(s, 1), "Area"))
                # RSum(Column(YearRowsWithArea(s, 2), "Area"))

\* the uploaded file without its rows of season code s; with those rows only
WithoutSeason(s) == [columns |-> columns, rows |-> SelectSeq(df, LAMBDA r : r.Season # s)]
OnlySeason(s) == [columns |-> columns, rows |-> SelectSeq(df, LAMBDA r : r.Season = s)]

\* the result of the finished run
Result ==
    IF module = "equity" THEN [summary |-> summary, average |-> average]
    ELSE IF module = "adequacy"
    THEN [summary |-> summary, average |-> average, season_results |-> season_results]
    ELSE [summary |-> summary, average |-> average, season_tables |-> season_results]

\* the entry of a year in a season column of a summary, "no value" without a row
EntryOf(rows, year, key) ==
    LET hit == SelectSeq(rows, LAMBDA r : r.year = year)
    IN  IF hit = <<>> THEN None ELSE hit[1][key]

(* C11: one season convention per module.  Productivity: the annual tables *)
(* are those of the Season = 4 rows alone, and the whole result is the     *)
(* result of the record set without its Season = 0 rows.  Adequacy, Equity: *)
(* the annual result (Adequacy season result 0, Equity annual entries) is  *)
(* that of the Season = 0 rows alone, and the whole result is the result   *)
(* of the record set without its Season = 4 rows.                          *)
C11_OneSeasonConvention ==
    pc = "done" =>
        /\ module = "productivity" =>
              /\ Return(Result) = compute_productivity_from_csv(WithoutSeason(0))
              /\ \A s \in {4} \cap DOMAIN season_results :
                     Some(season_results[s]) = generate_season_tables(OnlySeason(4).rows, 4)
              /\ 4 \notin DOMAIN season_results =>
                     generate_season_tables(OnlySeason(4).rows, 4) = None
        /\ module = "adequacy" =>
              /\ Return(Result) = compute_adequacy_from_csv(WithoutSeason(4))
              /\ \A s \in {0} \cap DOMAIN season_results :
                     Some(season_results[s]) = process_season_data(OnlySeason(0).rows, 0)
              /\ 0 \notin DOMAIN season_results =>
                     process_season_data(OnlySeason(0).rows, 0) = None
        /\ module = "equity" =>
              /\ Return(Result) = compute_equity_from_csv(WithoutSeason(4), args.crop_id)
              /\ \A k \in 1..Len(summary) :
                     summary[k].annual =
                        EntryOf(Val(compute_equity_from_csv(OnlySeason(0), args.crop_id).value)
                                    .summary, summary[k].year, "annual")

\* the Adequacy and Productivity part of C11 alone
C11_AdequacyProductivityPart ==
    pc = "done" /\ module # "equity" => C11_OneSeasonConvention
\* the crop id the seasonal cells are restricted to: the caller's crop_id, else
\* the first CropID value of the data (used only when the data has rows)
SelectedCropId == IF HasValue(args.crop_id) THEN Val(args.crop_id) ELSE df[1].CropID

\* the rows that match a year and a season key: irrigated status, the year, the
\* season, and for Kharif, Rabi, Zaid the selected crop id when the data has a
\* CropID column
EqMatching(year, key) ==
    SelectSeq(df, LAMBDA r :
        /\ r.year = year
        /\ Upper(r.status) = "IRRIGATED"
        /\ r.Season = SeasonOf(key)
        /\ key # "annual" /\ "CropID" \in columns => r.CropID = SelectedCropId)

\* the same without any crop-id restriction
EqUnrestricted(year, key) ==
    SelectSeq(df, LAMBDA r : r.year = year /\ Upper(r.status) = "IRRIGATED"
                             /\ r.Season = SeasonOf(key))

(* C12: an Equity cell is "no value" if and only if fewer than 2 rows match *)
(* its year and season or the mean of ETa over the matching rows is <= 0.   *)
C12_EquityCellIff ==
    pc = "done" /\ module = "equity" =>
        \A k \in 1..Len(summary) : \A key \in SeasonKeys :
            LET rows == EqMatching(summary[k].year, key)
            IN  summary[k][key] = None <=>
                    \/ Len(rows) < 2
                    \/ RLeq(RMean(Column(rows, "ETa")), RZero)

\* a finished Equity run with a valued cell and with a cell that is "no value"
\* although two rows match, their mean ETa being negative
C12_Witness ==
    /\ pc = "done" /\ module = "equity"
    /\ \E k \in 1..Len(summary) : \E key \in SeasonKeys : HasValue(summary[k][key])
    /\ \E k \in 1..Len(summary) : \E key \in SeasonKeys :
          /\ summary[k][key] = None
          /\ Len(EqMatching(summary[k].year, key)) >= 2
          /\ RLess(RMean(Column(EqMatching(summary[k].year, key), "ETa")), RZero)

(* C13: the Annual cell of a year is computed over all irrigated season-0   *)
(* rows of the year whatever their CropID; the Kharif, Rabi and Zaid cells  *)
(* only over the rows whose CropID is the selected crop id when the data    *)
(* has a CropID column, the selected id being the caller's crop_id, else    *)
(* the first CropID of the data; without a CropID column no restriction     *)
(* applies, even with a crop_id supplied.                                   *)
C13_CropIdRestriction ==
    pc = "done" /\ module = "equity" =>
        \A k \in 1..Len(summary) : \A key \in SeasonKeys :
            /\ summary[k][key] = EquityCell(EqMatching(summary[k].year, key))
            /\ key = "annual" \/ "CropID" \notin columns =>
                  summary[k][key] = EquityCell(EqUnrestricted(summary[k].year, key))

\* a finished Equity run on data with a CropID column: the Annual cell has a
\* value over rows of two crop ids, the Kharif cell of the same year is "no
\* value" because the restriction leaves one of its two rows
C13_Witness ==
    /\ pc = "done" /\ module = "equity" /\ "CropID" \in columns
    /\ \E k \in 1..Len(summary) :
          /\ HasValue(summary[k].annual)
          /\ Cardinality(Range(Column(EqMatching(summary[k].year, "annual"), "CropID"))) = 2
          /\ summary[k].kharif = None
          /\ Len(EqUnrestricted(summary[k].year, "kharif")) = 2
          /\ Len(EqMatching(summary[k].year, "kharif")) = 1
-----------------------------------------------------------------------------
(* Reference quantities of the reference-area claims *)

\* the rows of a year; the sum of Area over those with a crop id, over the
\* irrigated ones
RowsOfYear(y) == SelectSeq(df, LAMBDA r : r.year = y)
AreaOfCrop(y, c) == RSum(Column(SelectSeq(RowsOfYear(y), LAMBDA r : r.CropID = c), "Area"))
IrrigatedAreaOf(y) ==
    RSum(Column(SelectSeq(RowsOfYear(y), LAMBDA r : Upper(r.status) = "IRRIGATED"), "Area"))

\* the sum of a sequence of integers
RECURSIVE SumInts(_)
SumInts(q) == IF q = <<>> THEN 0 ELSE Head(q) + SumInts(Tail(q))

CiDone == pc = "done" /\ module = "cropping_intensity"
IuDone == pc = "done" /\ module = "irrigation_utilization"

\* the tables of the returned result
Returned == Val(returned)

(* C14: with cca > 0, every (year, crop id 1..8) value of the normalized-   *)
(* area table is the value of the same cell of the raw cropped-area table  *)
(* divided by cca (compared at the 3 decimals the table keeps).            *)
C14_NormalizedIsRawOverCca ==
    CiDone /\ RLess(RZero, args.cca) =>
        \A n \in 1..Len(Returned.normalized_area.data) : \A c \in 1..8 :
            LET raw == Returned.cropped_area.data[n]
                norm == Returned.normalized_area.data[n]
            IN  /\ raw.year = norm.year
                /\ Near(norm.crops[c], RDiv(RInt(raw.crops[c]), args.cca), 3)

(* C15: for every year the total_cropped_area of the intensity table is    *)
(* the sum of the year's 8 category cells of the raw cropped-area table,   *)
(* also for record sets with rows whose CropID is outside 1..8, and with   *)
(* cca > 0 cropping_intensity is that total over cca, at 2 decimals.       *)
C15_TotalIsSumOfCategories ==
    CiDone =>
        \A n \in 1..Len(Returned.intensity.data) :
            LET raw == Returned.cropped_area.data[n]
                row == Returned.intensity.data[n]
            IN  /\ raw.year = row.year
                /\ row.total_cropped_area = SumInts([c \in 1..8 |-> raw.crops[c]])
                /\ RLess(RZero, args.cca) =>
                      Near(row.cropping_intensity,
                           RDiv(RInt(row.total_cropped_area), args.cca), 2)

(* C16: on a record set with the required columns neither function raises, *)
(* whatever cca; with cca <= 0 every ratio (utilizationRatio, normalized   *)
(* cells, cropping_intensity, their AVERAGE entries) is exactly 0 while    *)
(* the raw area sums are still reported; with cca > 0 utilizationRatio is  *)
(* irrigatedArea / cca, at 4 decimals.                                     *)
C16_NonPositiveCcaGivesZero ==
    /\ module \in {"cropping_intensity", "irrigation_utilization"} =>
          pc \in {"read", "done"} /\ error = None
    /\ IuDone =>
          /\ Column(Returned.data, "year") = Sorted(Range(Column(df, "year")))
          /\ \A n \in 1..Len(Returned.data) :
                LET row == Returned.data[n]
                IN  /\ row.irrigatedArea = Round(IrrigatedAreaOf(row.year), 2)
                    /\ row.utilizationRatio =
                          IF RLeq(args.cca, RZero) THEN 0
                          ELSE Round(RDiv(IrrigatedAreaOf(row.year), args.cca), 4)
    /\ CiDone =>
          /\ Column(Returned.cropped_area.data, "year") = Sorted(Range(Column(df, "year")))
          /\ \A n \in 1..Len(Returned.cropped_area.data) : \A c \in 1..8 :
                LET raw == Returned.cropped_area.data[n]
                IN  raw.crops[c] = Round(AreaOfCrop(raw.year, c), 0)
          /\ RLeq(args.cca, RZero) =>
                /\ \A n \in 1..Len(Returned.normalized_area.data) : \A c \in 1..8 :
                      Returned.normalized_area.data[n].crops[c] = 0
                /\ \A c \in 1..8 : Returned.normalized_area.average[c] = 0
                /\ \A n \in 1..Len(Returned.intensity.data) :
                      /\ Returned.intensity.data[n].cropping_intensity = 0
                      /\ Returned.intensity.data[n].total_cropped_area =
                            Round(RSum(Column(RowsOfYear(Returned.intensity.data[n].year),
                                              "Area")), 0)
                /\ Returned.intensity.average.cropping_intensity = 0

\* a finished irrigation-utilization call with a negative cca on a record set
\* with an irrigated area
C16_Witness ==
    /\ IuDone
    /\ RLess(args.cca, RZero)
    /\ \E n \in 1..Len(Returned.data) :
          Returned.data[n].irrigatedArea > 0 /\ Returned.data[n].utilizationRatio = 0
-----------------------------------------------------------------------------
(* Schema and empty-season claims *)

\* the columns the metric of the module requires of a record set
RequiredColumns ==
    IF module = "adequacy"
    THEN {{"year"}, {"Season"}, {"Crop Type"}, {"Area"}, {"status"}, {"ETa"}, {"ETa90"}}
    ELSE IF module = "equity"
    THEN {{"year"}, {"Season"}, {"Crop Type", "CropID"}, {"Area"}, {"status"}, {"ETa"}}
    ELSE IF module = "productivity"
    THEN {{"year"}, {"Season"}, {"Crop Type"}, {"Area"}, {"status"}, {"ETa"}, {"TBP"}}
    ELSE IF module = "cropping_intensity"
    THEN {{"year"}, {"Area"}, {"CropID"}}
    ELSE {{"year"}, {"Area"}, {"status"}}

\* a requirement is a set of alternatives; it is lacking when none is there
LacksRequired == \E alt \in RequiredColumns : alt \cap columns = {}

NothingComputed ==
    season_results = <<>> /\ summary = <<>> /\ average = <<>> /\ returned = None

(* C18: on a record set that lacks a column its metric requires, each of   *)
(* the five compute_*_from_csv raises an error naming a missing column     *)
(* before it computes any aggregate, and returns no result.                *)
C18_FailsFastOnMissingColumn ==
    LacksRequired =>
        /\ pc \in {"read", "raised"}
        /\ NothingComputed
        /\ pc = "raised" => HasValue(error) /\ Val(error).column \notin columns

\* C18 for the four modules other than Equity
C18_OtherModulesPart ==
    module # "equity" => C18_FailsFastOnMissingColumn

\* the rows of season code s; those the module keeps of them
SeasonRows(s) == SelectSeq(df, LAMBDA r : r.Season = s)
FilteredRows(s) ==
    IF module = "adequacy"
    THEN SelectSeq(SeasonRows(s), LAMBDA r : r.CropType # "Other Unirrigated")
    ELSE SelectSeq(SeasonRows(s), LAMBDA r : r.status = "IRRIGATED")

ModuleSeasons == IF module = "adequacy" THEN {0, 1, 2, 3} ELSE {1, 2, 3, 4}

\* the result of the module on a file
ResultOn(file) ==
    IF module = "adequacy" THEN compute_adequacy_from_csv(file)
    ELSE compute_productivity_from_csv(file)

(* C19: a season whose filtered row set is empty is no failure: its season *)
(* result is null, the run ends without raising, the season's entry is "no *)
(* value" in every summary row, and the whole result is the one of the     *)
(* record set without the rows of that season; with all four seasons empty *)
(* the summary is empty.                                                   *)
C19_EmptySeasonOmitted ==
    module \in {"adequacy", "productivity"} =>
        /\ pc # "raised" /\ error = None
        /\ pc = "done" =>
              /\ \A s \in ModuleSeasons :
                     FilteredRows(s) = <<>> =>
                         /\ s \notin DOMAIN season_results
                         /\ IF module = "adequacy" THEN process_season_data(df, s) = None
                            ELSE generate_season_tables(df, s) = None
                         /\ \A k \in 1..Len(summary) : summary[k][ProdKey(s)] = None
                         /\ Return(Result) = ResultOn(WithoutSeason(s))
              /\ (\A s \in ModuleSeasons : FilteredRows(s) = <<>>) => summary = <<>>

\* a finished Adequacy run on a record set with a season that has rows, all of
\* them filtered out, and another season with a value in the summary
C19_Witness ==
    /\ pc = "done" /\ module = "adequacy"
    /\ \E s \in ModuleSeasons : SeasonRows(s) # <<>> /\ FilteredRows(s) = <<>>
    /\ \E k \in 1..Len(summary) : \E key \in SeasonKeys : HasValue(summary[k][key])
-----------------------------------------------------------------------------
(* Request claims *)

\* the request passes every test of its handler and uploads a file
ValidUpload(q) ==
    /\ q.endpoint \in CcaEndpoints => HasValue(q.cca) /\ RLess(RZero, Val(q.cca))
    /\ HasValue(q.file)
    /\ Val(q.file).filename \in {"data.csv", "../data.csv"}

(* C17: a cropping-intensity or irrigation-utilization request whose cca   *)
(* is absent, zero or negative is answered at once with an error naming    *)
(* the CCA: its handler saves and reads no file and calls no metric        *)
(* module, so it never returns a result.                                   *)
C17_InvalidCcaRejectedFirst ==
    \A r \in DOMAIN requests :
        LET q == requests[r]
        IN  /\ q.endpoint \in CcaEndpoints
            /\ q.cca = None \/ RLeq(Val(q.cca), RZero)
            => /\ q.pc \in {"start", "done"}
               /\ q.filepath = None
               /\ q.result = None
               /\ q.pc = "done" =>
                     /\ Val(q.response).status = 400
                     /\ Val(q.response).body.error =
                           "Valid CCA (Culturable Command Area) is required"

\* an answered request with a CSV upload and a cca of zero, and one with a
\* negative cca and no file while the default file exists
C17_Witness ==
    /\ \E r \in DOMAIN requests :
          /\ requests[r].endpoint \in CcaEndpoints
          /\ requests[r].cca = Some(RZero)
          /\ ValidUpload([requests[r] EXCEPT !.cca = Some(RInt(1))])
          /\ requests[r].pc = "done"
    /\ \E r \in DOMAIN requests :
          /\ requests[r].endpoint \in CcaEndpoints
          /\ requests[r].cca = Some(RInt(-1))
          /\ requests[r].file = None
          /\ DefaultPath \in DOMAIN files
          /\ requests[r].pc = "done"

(* C20: requests handled concurrently do not affect each other: whatever   *)
(* the interleaving, and also when uploads share a file name, a request    *)
(* with a valid upload is answered with the result computed from the rows  *)
(* it uploaded, and never fails.                                           *)
C20_RequestsAreIsolated ==
    \A r \in DOMAIN requests :
        LET q == requests[r]
        IN  ValidUpload(q) /\ q.pc = "done" =>
                /\ Val(q.response).status = 200
                /\ Val(q.response).body = Val(Call(q.endpoint, Val(q.file).content, q.cca).value)

-----------------------------------------------------------------------------
(* Range of the Adequacy cell *)

MeanETa(t) == RMean(Column(CellRows(t[1], t[2], t[3]), "ETa"))
MeanETa90(t) == RMean(Column(CellRows(t[1], t[2], t[3]), "ETa90"))

\* ETa <= ETa90 in every matching row
RowwiseBelow(t) ==
    \A k \in DOMAIN CellRows(t[1], t[2], t[3]) :
        RLeq(CellRows(t[1], t[2], t[3])[k].ETa, CellRows(t[1], t[2], t[3])[k].ETa90)

ValuedCells == {t \in AdqCells : HasValue(AdqCell(t[1], t[2], t[3]))}

C23_TempFileRemoved ==
    \A r \in DOMAIN requests :
        /\ requests[r].pc = "done"
        /\ HasValue(requests[r].filepath)
        /\ \A o \in DOMAIN requests \ {r} : requests[o].filepath = None
        => Val(requests[r].filepath) \notin DOMAIN files

\* the part of C23 on the successful path
C23_RemovedOnSuccess ==
    \A r \in DOMAIN requests :
        /\ requests[r].pc = "done"
        /\ HasValue(requests[r].filepath)
        /\ Val(requests[r].response).status = 200
        /\ \A o \in DOMAIN requests \ {r} : requests[o].filepath = None
        => Val(requests[r].filepath) \notin DOMAIN files

-----------------------------------------------------------------------------
(* Status claim *)

\* the row passes the status filter of the module, the row alone in a file
AdqCounts(r) == AdqIrrigated(<<r>>) # <<>>
ProdCounts(r) == ProdBase(<<r>>, r.Season) # <<>>
EqCounts(r) == EqSubset(<<r>>, FALSE, None, r.year, r.Season) # <<>>
IuCounts(r) == UtilizationRow(<<r>>, RInt(1), r.year).irrigatedArea > 0

(* C24: the modules that filter on the irrigation status classify a row    *)
(* identically: for every spelling of the status, a row is counted as      *)
(* irrigated by Equity and by Irrigation Utilization if and only if it is  *)
(* counted as irrigated by Adequacy and by Productivity.                   *)
C24_SameStatusClassification ==
    pc = "done" =>
        \A k \in DOMAIN df :
            /\ EqCounts(df[k]) <=> IuCounts(df[k])
            /\ AdqCounts(df[k]) <=> ProdCounts(df[k])
            /\ EqCounts(df[k]) <=> AdqCounts(df[k])

\* the parts of C24 that hold: Equity agrees with Irrigation Utilization,
\* Adequacy with Productivity, and all four on the upper-case spelling
C24_AgreeInPairs ==
    pc = "done" =>
        \A k \in DOMAIN df :
            /\ EqCounts(df[k]) <=> IuCounts(df[k])
            /\ AdqCounts(df[k]) <=> ProdCounts(df[k])
            /\ df[k].status \in {"IRRIGATED", "UNIRRIGATED"} =>
                   (EqCounts(df[k]) <=> AdqCounts(df[k]))
            /\ AdqCounts(df[k]) => EqCounts(df[k])

-----------------------------------------------------------------------------
(* Claims on the result of process_season_data *)

\* the weight of a valued cell: the cell of the area matrix
Weight(s, y, c) == season_results[s].area_matrix[y][c]

\* the values of the valued cells of a season and year
CellValues(s, y) == {Val(AdqCell(s, y, c)) : c \in Range(ValuedCrops(s, y))}

(* C26: in every result of process_season_data, for every year with at     *)
(* least one valued adequacy cell, every weight of the combined score is   *)
(* non-negative, the weights sum to more than zero (the division has no    *)
(* zero denominator), and the combined adequacy has a value that lies      *)
(* between the least and the greatest valued cell of the year.             *)
C26_CombinedWithinCells ==
    pc = "done" /\ module = "adequacy" =>
        \A t \in AdqYears :
            LET s == t[1]
                y == t[2]
                crops == ValuedCrops(s, y)
                combined == season_results[s].combined_adequacy[y]
            IN  crops # <<>> =>
                    /\ \A k \in DOMAIN crops : Weight(s, y, crops[k]) >= 0
                    /\ SumInts([k \in DOMAIN crops |-> Weight(s, y, crops[k])]) > 0
                    /\ HasValue(combined)
                    /\ \A v \in CellValues(s, y) :
                           (\A w \in CellValues(s, y) : v <= w) => v <= Val(combined)
                    /\ \A v \in CellValues(s, y) :
                           (\A w \in CellValues(s, y) : w <= v) => Val(combined) <= v

\* a finished run with a year of two valued cells of different values and
\* different weights
C26_Witness ==
    /\ pc = "done"
    /\ module = "adequacy"
    /\ \E t \in AdqYears :
          /\ Len(ValuedCrops(t[1], t[2])) = 2
          /\ Cardinality(CellValues(t[1], t[2])) = 2
          /\ Weight(t[1], t[2], "Wheat") # Weight(t[1], t[2], "Rice")

\* the crop keys of the matrix rows of year y of a season result
MatrixKeys(res, y) == DOMAIN res.area_matrix[y] \cup DOMAIN res.adequacy_matrix[y]

(* C27: in every non-null result of process_season_data the crop_types     *)
(* list and the matrices agree: every crop of crop_types is a key of the   *)
(* area_matrix row and of the adequacy_matrix row of every year of years   *)
(* (also a crop whose rows in the season are all non-irrigated), every     *)
(* matrix column is in crop_types, and "Other Unirrigated" is in neither.  *)
C27_CropTypesMatchMatrices ==
    pc = "done" /\ module = "adequacy" =>
        \A s \in DOMAIN season_results :
            LET res == season_results[s]
            IN  /\ \A c \in EXCLUDE_CROPS : c \notin Range(res.crop_types)
                /\ \A y \in Range(res.years) :
                       /\ y \in DOMAIN res.area_matrix
                       /\ y \in DOMAIN res.adequacy_matrix
                       /\ Range(res.crop_types) \subseteq DOMAIN res.area_matrix[y]
                       /\ Range(res.crop_types) \subseteq DOMAIN res.adequacy_matrix[y]
                       /\ MatrixKeys(res, y) \subseteq Range(res.crop_types)
                       /\ \A c \in EXCLUDE_CROPS : c \notin MatrixKeys(res, y)

\* the parts of C27 that hold: the two matrices have the years of years and the
\* same crop keys, every key is in crop_types, "Other Unirrigated" is in neither
C27_MatrixColumnsInCropTypes ==
    pc = "done" /\ module = "adequacy" =>
        \A s \in DOMAIN season_results :
            LET res == season_results[s]
            IN  /\ \A c \in EXCLUDE_CROPS : c \notin Range(res.crop_types)
                /\ DOMAIN res.area_matrix = Range(res.years)
                /\ DOMAIN res.adequacy_matrix = Range(res.years)
                /\ \A y \in Range(res.years) :
                       /\ DOMAIN res.area_matrix[y] = DOMAIN res.adequacy_matrix[y]
                       /\ MatrixKeys(res, y) \subseteq Range(res.crop_types)
                       /\ \A c \in EXCLUDE_CROPS : c \notin MatrixKeys(res, y)

-----------------------------------------------------------------------------
(* Row-order claim *)

\* the record sets with the rows of df in another order
Reorderings ==
    {[k \in 1..Len(df) |-> df[p[k]]] : p \in Permutations(1..Len(df))}

\* what compute_equity_from_csv returns for the rows q, crop_id not supplied
EquityOf(q) == Val(compute_equity_from_csv([columns |-> columns, rows |-> q], None).value)

EqDoneNoCropId == pc = "done" /\ module = "equity" /\ args.crop_id = None

(* C25, as stated: without a crop_id, the summary and the average of       *)
(* compute_equity_from_csv depend only on the multiset of rows: record     *)
(* sets that are permutations of each other give the same summary and the  *)
(* same average.                                                           *)
C25_RowOrderIrrelevant ==
    EqDoneNoCropId =>
        \A q \in Reorderings :
            EquityOf(q).summary = summary /\ EquityOf(q).average = average

(* C25, amended: without a crop_id, the summary and the average depend     *)
(* only on the multiset of rows and on the CropID of the first row: record *)
(* sets that are permutations of each other give the same years in the     *)
(* same order and the same annual column and annual average, and the same  *)
(* summary and average altogether when their first rows carry the same     *)
(* CropID or the file has no CropID column.                                *)
C25_RowOrderUpToFirstCropId ==
    EqDoneNoCropId =>
        \A q \in Reorderings :
            /\ Column(EquityOf(q).summary, "year") = Column(summary, "year")
            /\ Column(EquityOf(q).summary, "annual") = Column(summary, "annual")
            /\ EquityOf(q).average.annual = average.annual
            /\ "CropID" \notin columns \/ df = <<>> \/ q[1].CropID = df[1].CropID
               => EquityOf(q).summary = summary /\ EquityOf(q).average = average

\* a finished run without crop_id on three or more rows of two crop ids and two
\* years, the later year first, with a valued seasonal cell
C25_Witness ==
    /\ EqDoneNoCropId
    /\ "CropID" \in columns
    /\ Len(df) >= 3
    /\ \E j, k \in DOMAIN df : df[j].CropID # df[k].CropID
    /\ \E j, k \in DOMAIN df : j < k /\ df[j].year > df[k].year
    /\ \E k \in DOMAIN summary : HasValue(summary[k].kharif)

-----------------------------------------------------------------------------
(* Repeated-call claims *)

====
